---- MODULE Spec2Model ----
(***************************************************************************)
(* Gateway of the TTS/ASR service: the full-duplex synthesis relay         *)
(* (gateway/main.py tts_websocket, gateway/services.py                     *)
(* synthesize_stream_websocket) and the one-way echo pipeline              *)
(* (gateway/main.py echo_bytes).                                           *)
(***************************************************************************)
EXTENDS Integers, Sequences, FiniteSets, TLC

\* ------------------------------------------------------------------ bounds
\* segments in one {segments: [...]} request
MaxSegs == 2
\* frames the synthesis backend sends on one ephemeral connection
MaxFrames == 2

\* ------------------------------------------------------- full-duplex inputs
\* the client sockets of the model, and those that connect
AllSessions == {"ws1", "ws2"}
Sessions == {"ws1"}

Whitespace == {" "}

\* strings are sequences of characters
Texts == {<<>>, <<" ">>, <<" ", "a">>}

\* a JSON value found under the key "text": absent, a string, or a truthy
\* value that is not a string (a number such as 5)
Absent == [ty |-> "absent", s |-> <<>>]
NonStr == [ty |-> "num", s |-> <<>>]
Str(t) == [ty |-> "str", s |-> t]
TextVals == {Absent, NonStr} \cup {Str(t) : t \in Texts}

\* a segment is a JSON object with an optional "text" key
SegObjs == [text : TextVals]
SegLists == UNION {[1..n -> SegObjs] : n \in 0..MaxSegs}

\* A client message as json.loads sees it:
\*   top = "nonjson"    the payload does not parse
\*   top = "scalar"     null or a number: the `in` test raises TypeError
\*   top = "container"  a string or an array: `in` is a membership test that
\*                      answers has_text / has_segments, indexing by a key raises
\*   top = "object"     a dict with optional keys "text" and "segments"
NoSegs == [present |-> FALSE, items |-> <<>>]
Segs(l) == [present |-> TRUE, items |-> l]
Obj(t, sg) ==
    [top |-> "object", has_text |-> FALSE, has_segments |-> FALSE,
     text |-> t, segments |-> sg]
\* {} and {text: v}; {segments: [...]}; and objects carrying both keys
ObjectMsgs ==
    {Obj(t, NoSegs) : t \in TextVals}
    \cup {Obj(Absent, Segs(l)) : l \in SegLists}
    \cup {Obj(t, Segs(<<[text |-> Str(<<" ", "a">>)]>>)) :
             t \in {Str(<<>>), Str(<<" ", "a">>)}}
OtherMsgs ==
    [top : {"nonjson", "scalar"}, has_text : {FALSE}, has_segments : {FALSE},
     text : {Absent}, segments : {NoSegs}]
    \cup [top : {"container"}, has_text : BOOLEAN, has_segments : BOOLEAN,
          text : {Absent}, segments : {NoSegs}]
Messages == ObjectMsgs \cup OtherMsgs
NoMsg == [top |-> "none", has_text |-> FALSE, has_segments |-> FALSE,
          text |-> Absent, segments |-> NoSegs]
\* a binary frame from the client: the event receive_text gets carries no
\* "text", and receive_text raises KeyError
BinaryMsg == [top |-> "binary", has_text |-> FALSE, has_segments |-> FALSE,
              text |-> Absent, segments |-> NoSegs]

\* ------------------------------------------------------------------- state
VARIABLES
    pc,                  \* per session: where its tts_websocket handler stands
    active_connections,  \* ConnectionManager.active_connections (its keys)
    clientOpen,          \* per session: the client side of the socket is open
    request,             \* per session: message_data of the current request
    idx,                 \* per session: iteration of the `for segment` loop
    cur,                 \* per session: the text item being relayed
    conns,               \* per session: backend connections of this request
    sent,                \* per session: frames the backend sent on the
                         \*   connection of the current relay cycle
    rd,                  \* per session: how many of them the gateway has read
    delivered,           \* per session: frames the client got for this request
    epc,                 \* one-way request: where echo_bytes stands
    ereq,                \* one-way request: sr, ch and the body length
    easr,                \* one-way request: what transcribe returned
    eresp,               \* one-way request: the response the client gets
    ebody,               \* one-way request: body chunks the client has got
    echunks,             \* one-way request: chunks synthesize_stream_http
                         \*   has yielded
    asr_calls,           \* calls of asr_client.transcribe
    tts_calls,           \* calls of tts_client.synthesize_stream_http
    hpc,                 \* health request: where health_check stands
    hans,                \* health request: what each backend's probe met
    health_status,       \* health request: dict of check_services_health
    hresp,               \* health request: the response the client gets
    apc,                 \* recognition service: where stt_bytes stands
    areq,                \* recognition service: sr, ch and the body length
    aeng,                \* recognition service: what the engine did
    aresp,               \* recognition service: the response
    engine_calls,        \* recognition service: calls of asr_engine.transcribe
    cpc,                 \* recognize client: where transcribe stands
    cans,                \* recognize client: what the backend answered
    cout,                \* recognize client: what transcribe returned/raised
    post_calls,          \* recognize client: calls of http_client.post
    spc,                 \* synthesis client: where synthesize_stream_http stands
    sans,                \* synthesis client: what the backend answered
    sread,               \* synthesis client: chunks read from the response
    syield,              \* synthesis client: chunks the generator yielded
    tpc,                 \* synthesis service socket: where its handler stands
    tclient,             \* synthesis service socket: the peer is connected
    tmsg,                \* synthesis service socket: the current message
    tgen,                \* synthesis service socket: chunks the engine has
                         \*   yielded for the current message
    tdone,               \* synthesis service socket: how the engine finished
    tout,                \* synthesis service socket: frames sent for the
                         \*   current message
    ppc,                 \* synthesis service /api/tts: where the request stands
    preq,                \* synthesis service /api/tts: the request body
    presp,               \* synthesis service /api/tts: status of the response
    pbody,               \* synthesis service /api/tts: chunks of the response
    synth_calls,         \* synthesis service /api/tts: calls of the engine
    inhand,              \* per session: frames the relay loop has taken from
                         \*   the backend connection and not yet passed on
    accepting,           \* per session: the client socket takes what is
                         \*   written to it
    registry,            \* ConnectionManager.active_connections as a dict:
                         \*   its entries in insertion order
    reg_last,            \* the last call on the ConnectionManager
    vin,                 \* recognition engine: arguments of _validate_audio
    vout,                \* recognition engine: outcome of _validate_audio
    gin,                 \* synthesis engine: the audio bytes and chunk_size
    gout,                \* synthesis engine: the chunks synthesize_stream
                         \*   yielded
    engines              \* per backend service: what its engine's is_healthy
                         \*   does

wsvars == <<pc, active_connections, clientOpen, request, idx, cur, conns, sent,
            rd, delivered>>
echovars == <<epc, ereq, easr, eresp, ebody, echunks, asr_calls, tts_calls>>
healthvars == <<hpc, hans, health_status, hresp>>
\* the state of the other endpoints and services
asrvars == <<apc, areq, aeng, aresp, engine_calls>>
clivars == <<cpc, cans, cout, post_calls, spc, sans, sread, syield>>
ttsvars == <<tpc, tclient, tmsg, tgen, tdone, tout>>
ttshttpvars == <<ppc, preq, presp, pbody, synth_calls>>
flowvars == <<inhand, accepting>>
regvars == <<registry, reg_last>>
enginevars == <<vin, vout, gin, gout>>
backendvars == <<engines>>
svcvars == <<healthvars, asrvars, clivars, ttsvars, ttshttpvars, flowvars, regvars,
             enginevars, backendvars>>
restHealth == <<wsvars, echovars, asrvars, clivars, ttsvars, ttshttpvars, flowvars, regvars,
    enginevars, backendvars>>
restAsr == <<wsvars, echovars, healthvars, clivars, ttsvars, ttshttpvars, flowvars, regvars,
    enginevars, backendvars>>
restCli == <<wsvars, echovars, healthvars, asrvars, ttsvars, ttshttpvars, flowvars, regvars,
    enginevars, backendvars>>
restTts == <<wsvars, echovars, healthvars, asrvars, clivars, ttshttpvars, flowvars, regvars,
    enginevars, backendvars>>
restTtsHttp == <<wsvars, echovars, healthvars, asrvars, clivars, ttsvars, flowvars, regvars,
    enginevars, backendvars>>
restFlow == <<echovars, healthvars, asrvars, clivars, ttsvars, ttshttpvars, regvars,
    enginevars, backendvars>>
restReg == <<wsvars, echovars, healthvars, asrvars, clivars, ttsvars, ttshttpvars, flowvars,
    enginevars, backendvars>>
restEngine == <<wsvars, echovars, healthvars, asrvars, clivars, ttsvars, ttshttpvars,
    flowvars, regvars, backendvars>>
vars == <<wsvars, echovars, svcvars>>

\* ----------------------------------------------------------------- helpers
RECURSIVE lstrip(_)
lstrip(t) == IF t # <<>> /\ Head(t) \in Whitespace THEN lstrip(Tail(t)) ELSE t

RECURSIVE rstrip(_)
rstrip(t) ==
    IF t # <<>> /\ t[Len(t)] \in Whitespace
    THEN rstrip(SubSeq(t, 1, Len(t) - 1)) ELSE t

\* str.strip()
strip_noop(t) == t
strip(t) == rstrip(lstrip(t))

\* Python truth value of a JSON value
Truthy(v) == (v.ty = "num") \/ (v.ty = "str" /\ v.s # <<>>)

\* `"text" in message_data` / `"segments" in message_data`
HasText(m) == IF m.top = "object" THEN m.text.ty # "absent" ELSE m.has_text
HasSegments(m) == IF m.top = "object" THEN m.segments.present ELSE m.has_segments

\* client-visible frames
BinFrame_altered(p, k) == [kind |-> "bin", data |-> 0, text |-> "", seg |-> k]
BinFrame(p, k) == [kind |-> "bin", data |-> p, text |-> "", seg |-> k]
EndFrame(k) == [kind |-> "end", data |-> 0, text |-> "", seg |-> k]
ErrFrame(msg, k) == [kind |-> "error", data |-> 0, text |-> msg, seg |-> k]

\* frames on an ephemeral backend connection, as the backend sends them:
\* binary audio, the {"type": "end"} text frame, a JSON text frame carrying
\* an error, a text frame that is not JSON, and the two ways the backend
\* can close the connection (normal close, abnormal close)
\* The payload of a binary frame is its position on the connection, so that
\* every binary frame of a connection has its own content.
FrameKinds == {"bin", "end", "error", "garbage"}
BackendFrame(kind, n) == [kind |-> kind, data |-> IF kind = "bin" THEN n ELSE 0]
CloseFrame(ok) == [kind |-> IF ok THEN "close_ok" ELSE "close_err", data |-> 0]

\* `async with websockets.connect(...)` entered and the text sent
NewConn(item) == [text |-> item.text, seg |-> item.seg, open |-> TRUE]

\* leaving the `async with` block closes the connection
CloseOnExit_leak(c) == c
CloseOnExit(c) == [c EXCEPT !.open = FALSE]

\* the ephemeral connection a relay cycle is reading from
Current(s) == conns[s][Len(conns[s])]

\* the backend has closed its side of the current connection
BackendClosed(s) ==
    sent[s] # <<>> /\ sent[s][Len(sent[s])].kind \in {"close_ok", "close_err"}

\* What one iteration of `async for message in tts_websocket` does with a frame:
\*   "forward"  send_bytes to the client, keep reading
\*   "end"      send {"type": "end"} to the client and break
\*   "skip"     nothing (text frame that is not JSON, or JSON whose type is
\*              not "end"), keep reading
\*   "stop"     the iterator ends (connection closed normally)
\*   "raise"    the iterator raises ConnectionClosedError
OnFrame_noend(f) ==
    CASE f.kind = "bin" -> "forward"
      [] f.kind \in {"end", "error", "garbage"} -> "skip"
      [] f.kind = "close_ok" -> "stop"
      [] f.kind = "close_err" -> "raise"
OnFrame(f) ==
    CASE f.kind = "bin" -> "forward"
      [] f.kind = "end" -> "end"
      [] f.kind \in {"error", "garbage"} -> "skip"
      [] f.kind = "close_ok" -> "stop"
      [] f.kind = "close_err" -> "raise"

\* How tts_websocket parses one client message, up to its first await:
\*   "json_error"      json.loads raised JSONDecodeError
\*   "exception"       another exception (TypeError, AttributeError)
\*   "empty_text"      "text" present, falsy or blank
\*   "single"          "text" present and not blank
\*   "empty_segments"  "segments" present and falsy
\*   "segments"        "segments" present and not empty
\*   "ignored"         neither key found: nothing is sent
ParseOutcome_noempty(m) ==
    CASE m.top = "none" -> "none"
      [] m.top = "nonjson" -> "json_error"
      [] m.top = "scalar" -> "exception"
      [] m.top = "container" ->
            IF HasText(m) \/ HasSegments(m) THEN "exception" ELSE "ignored"
      [] m.top = "object" ->
            IF HasText(m)
            THEN IF ~Truthy(m.text) THEN "empty_text"
                 ELSE IF m.text.ty # "str" THEN "exception"
                 ELSE IF strip(m.text.s) = <<>> THEN "empty_text"
                 ELSE "single"
            ELSE IF HasSegments(m) THEN "segments"
            ELSE "ignored"
ParseOutcome_segfirst(m) ==
    CASE m.top = "none" -> "none"
      [] m.top = "nonjson" -> "json_error"
      [] m.top = "scalar" -> "exception"
      [] m.top = "container" ->
            IF HasText(m) \/ HasSegments(m) THEN "exception" ELSE "ignored"
      [] m.top = "object" ->
            IF HasSegments(m)
            THEN IF m.segments.items = <<>> THEN "empty_segments" ELSE "segments"
            ELSE IF HasText(m)
            THEN IF ~Truthy(m.text) THEN "empty_text"
                 ELSE IF m.text.ty # "str" THEN "exception"
                 ELSE IF strip(m.text.s) = <<>> THEN "empty_text"
                 ELSE "single"
            ELSE "ignored"
ParseOutcome(m) ==
    CASE m.top = "none" -> "none"
      [] m.top = "nonjson" -> "json_error"
      [] m.top = "scalar" -> "exception"
      [] m.top = "container" ->
            IF HasText(m) \/ HasSegments(m) THEN "exception" ELSE "ignored"
      [] m.top = "object" ->
            IF HasText(m)
            THEN IF ~Truthy(m.text) THEN "empty_text"
                 ELSE IF m.text.ty # "str" THEN "exception"
                 ELSE IF strip(m.text.s) = <<>> THEN "empty_text"
                 ELSE "single"
            ELSE IF HasSegments(m)
            THEN IF m.segments.items = <<>> THEN "empty_segments" ELSE "segments"
            ELSE "ignored"

\* the error text of the frame sent for a parse outcome
ErrorText(o) ==
    CASE o = "json_error" -> "Invalid JSON format"
      [] o = "empty_text" -> "Empty text provided"
      [] o = "empty_segments" -> "Empty segments provided"
      [] OTHER -> "TTS generation failed"

\* What the body of `for segment in segments` does with one segment:
\* "relay" it, "skip" it, or "raise" (strip() of a value that is no string)
OnSegment_all(seg) ==
    IF seg.text.ty = "absent" THEN "skip"
    ELSE IF seg.text.ty # "str" THEN "raise"
    ELSE "relay"
OnSegment(seg) ==
    IF seg.text.ty = "absent" THEN "skip"
    ELSE IF ~Truthy(seg.text) THEN "skip"
    ELSE IF seg.text.ty # "str" THEN "raise"
    ELSE IF strip(seg.text.s) = <<>> THEN "skip"
    ELSE "relay"

\* The positions of the list in the order `for segment in segments` visits
\* them: the n-th iteration takes segment SegmentOrder(segs)[n].
SegmentOrder_reversed(segs) == [n \in 1..Len(segs) |-> Len(segs) + 1 - n]
SegmentOrder(segs) == [n \in 1..Len(segs) |-> n]

\* ----------------------------------------------------------- one-way inputs
\* body bytes of a one-way request
MaxBody == 2
\* chunks of one synthesis response
MaxChunks == 2

MinSampleRate == 8000
MaxSampleRate == 48000
MinChannels == 1
MaxChannels == 2

SampleRates == {MinSampleRate - 1, MinSampleRate, 16000, MaxSampleRate, MaxSampleRate + 1}
Channels == {MinChannels - 1, MinChannels, MaxChannels, MaxChannels + 1}

EchoRequests == [sr : SampleRates, ch : Channels, body : 0..MaxBody]
NoRequest == [sr |-> 0, ch |-> 0, body |-> 0]

\* What the recognition backend answers: "text" missing or a string,
\* "segments" missing, null or a list of timed segments.
AsrSegments ==
    {[ty |-> "missing", items |-> <<>>], [ty |-> "null", items |-> <<>>],
     [ty |-> "list", items |-> <<>>],
     [ty |-> "list", items |-> <<[start_ms |-> 0, end_ms |-> 1000]>>]}
AsrResults ==
    [ok : {TRUE}, text : {Absent} \cup {Str(t) : t \in Texts}, segments : AsrSegments]
NoResult == [ok |-> FALSE, text |-> Absent, segments |-> [ty |-> "missing", items |-> <<>>]]

\* json.dumps of a list, and the literal "[]"
json_dumps(l) == [json |-> l]
EmptyJsonList == json_dumps(<<>>)

NoResponse ==
    [sent |-> FALSE, status |-> 0, text |-> <<>>, segments |-> EmptyJsonList]

\* raise HTTPException(status_code=..., detail=...)
HTTPException(code, detail) == [status_code |-> code, detail |-> detail]

\* http_exception_handler returns ErrorResponse(error=..., detail=...), a
\* pydantic model and not a response object.
http_exception_handler(exc) ==
    [is_response |-> FALSE, status_code |-> exc.status_code, detail |-> exc.detail]

\* What the client gets for the value an exception handler returned: the
\* value is called as the response; one that is no response object cannot be
\* called, the call raises and the server answers 500.
HandledResponse(r) ==
    [sent |-> TRUE, status |-> IF r.is_response THEN r.status_code ELSE 500,
     text |-> <<>>, segments |-> EmptyJsonList]

\* the checks of echo_bytes before any backend is touched: the HTTPException
\* it raises, or none
NoException == HTTPException(0, "")
Validate_none(q) == NoException
Validate(q) ==
    IF q.sr < MinSampleRate \/ q.sr > MaxSampleRate
    THEN HTTPException(400, "Sample rate must be between 8000 and 48000 Hz")
    ELSE IF q.ch < MinChannels \/ q.ch > MaxChannels
    THEN HTTPException(400, "Number of channels must be 1 or 2")
    ELSE IF q.body = 0
    THEN HTTPException(400, "No audio data provided")
    ELSE NoException

\* the StreamingResponse of the degraded path: empty body, empty metadata
EmptyResponse ==
    [sent |-> TRUE, status |-> 200, text |-> <<>>, segments |-> EmptyJsonList]

\* `yield audio_chunk` of generate_echo_stream: the chunk goes to the body
Yield(body, chunk) == Append(body, chunk)

\* How generate_echo_stream ends: the synthesis stream is exhausted, or it
\* raised (error status, transport failure) and `except Exception: return`
\* ends the body where it is; "aborted" would be the exception leaving the
\* generator.
StreamOutcome_raise(ok) == IF ok THEN "done" ELSE "aborted"
StreamOutcome(ok) == IF ok THEN "done" ELSE "truncated"

\* asr_result.get("text", "") and asr_result.get("segments", [])
RecognizedText(r) == IF r.text.ty = "absent" THEN <<>> ELSE r.text.s

\* ------------------------------------------------------------ health inputs
\* a Python dict with no key
EmptyDict == [k \in {} |-> FALSE]
\* d[k] = v
DictSet(d, k, v) == [x \in DOMAIN d \cup {k} |-> IF x = k THEN v ELSE d[x]]

\* the backend services, and what is_healthy of a service's engine does:
\* it returns True, returns False, or raises
Backends == {"tts", "asr"}
EngineHealth == {"healthy", "unhealthy", "raises"}

\* What a GET /health probe of a backend meets: an answer with a status code
\* and the status its body reports, or an exception (timeout, transport error)
ProbeCodes == {200, 204, 500, 503}
ProbeAnswers ==
    [kind : {"response"}, code : ProbeCodes, body : {"healthy", "unhealthy"}]
    \cup [kind : {"timeout", "error"}, code : {0}, body : {""}]

\* one try block of check_services_health: the boolean stored for the
\* backend; `raised` says that an exception leaves the block
Probe_body(a) ==
    [raised |-> FALSE,
     value |-> a.kind = "response" /\ a.code = 200 /\ a.body = "healthy"]
Probe_raises(a) ==
    [raised |-> a.kind # "response", value |-> a.kind = "response" /\ a.code = 200]
Probe(a) ==
    [raised |-> FALSE, value |-> a.kind = "response" /\ a.code = 200]

\* health_check of a backend service: 200 with the status of the engine in
\* the body, or HTTPException(500) when is_healthy raises
ServiceHealth(e) ==
    IF e = "raises"
    THEN [kind |-> "response", code |-> 500, body |-> "unhealthy"]
    ELSE [kind |-> "response", code |-> 200, body |-> e]

\* the probe's request does not get through to the service
Unreachable == [kind : {"timeout", "error"}, code : {0}, body : {""}]

\* all(dependencies.values()) and the status string of health_check
Aggregate_any(deps) ==
    IF \E k \in DOMAIN deps : deps[k] THEN "healthy" ELSE "degraded"
Aggregate(deps) ==
    IF \A k \in DOMAIN deps : deps[k] THEN "healthy" ELSE "degraded"

NoHealthResponse ==
    [sent |-> FALSE, status_code |-> 0, status |-> "", dependencies |-> EmptyDict]
\* HealthResponse(status=..., service="gateway", dependencies=...)
HealthResponse(status, deps) ==
    [sent |-> TRUE, status_code |-> 200, status |-> status, dependencies |-> deps]
\* health_check's `except Exception`: HTTPException(500), answered by the
\* exception handler
HealthFailure ==
    [sent |-> TRUE,
     status_code |-> HandledResponse(http_exception_handler(
                         HTTPException(500, "Service unhealthy"))).status,
     status |-> "", dependencies |-> EmptyDict]

\* ----------------------------------------------- recognition service inputs
\* What asr_engine.transcribe does: it returns a text with its segments, or
\* raises ValueError (audio too long, empty audio) or another exception
EngineErrors == {"Audio duration exceeds maximum", "Empty audio data"}
EngineOutcomes ==
    [kind : {"ok"}, detail : {""}, text : {<<>>, <<"a">>}, nsegs : {0, 1}]
    \cup [kind : {"ValueError"}, detail : EngineErrors, text : {<<>>}, nsegs : {0}]
    \cup [kind : {"Exception"}, detail : {"model failure"}, text : {<<>>}, nsegs : {0}]
NoEngineOutcome == [kind |-> "none", detail |-> "", text |-> <<>>, nsegs |-> 0]

\* an exception in flight inside stt_bytes, or none
Raised(type, code, detail) == [type |-> type, status_code |-> code, detail |-> detail]
NotRaised == Raised("none", 0, "")

\* the checks at the head of stt_bytes, which stand inside its try block
AsrValidate(q) ==
    IF q.sr < MinSampleRate \/ q.sr > MaxSampleRate
    THEN Raised("HTTPException", 400, "Sample rate must be between 8000 and 48000 Hz")
    ELSE IF q.ch < MinChannels \/ q.ch > MaxChannels
    THEN Raised("HTTPException", 400, "Number of channels must be 1 or 2")
    ELSE IF q.body = 0
    THEN Raised("HTTPException", 400, "No audio data provided")
    ELSE NotRaised

\* the call of asr_engine.transcribe, as an exception in flight or none
EngineRaised(e) ==
    IF e.kind = "ok" THEN NotRaised ELSE Raised(e.kind, 0, e.detail)

\* The except clauses of stt_bytes: `except ValueError` turns into
\* HTTPException(400, str(e)); `except Exception` catches everything else,
\* an HTTPException raised by the checks above included, and turns it into
\* HTTPException(500, "Speech recognition failed").
AsrExcept_all500(exc) == HTTPException(500, "Speech recognition failed")
AsrExcept(exc) ==
    IF exc.type = "ValueError"
    THEN HTTPException(400, exc.detail)
    ELSE HTTPException(500, "Speech recognition failed")

\* the recognition service's http_exception_handler: a JSONResponse with
\* the status code and the detail of the exception
AsrErrorResponse(exc) ==
    [sent |-> TRUE, status_code |-> exc.status_code, detail |-> exc.detail,
     text |-> <<>>, segments |-> [ty |-> "missing", n |-> 0]]

\* ASRResponseWithSegments: segments is null when the engine returned none
AsrSuccess(e) ==
    [sent |-> TRUE, status_code |-> 200, detail |-> "", text |-> e.text,
     segments |-> IF e.nsegs > 0 THEN [ty |-> "list", n |-> e.nsegs]
                  ELSE [ty |-> "null", n |-> 0]]
NoAsrResponse ==
    [sent |-> FALSE, status_code |-> 0, detail |-> "", text |-> <<>>,
     segments |-> [ty |-> "missing", n |-> 0]]

\* ---------------------------------------------------- backend client inputs
\* What an HTTP call of a backend client meets: an answer with a status
\* code and a body, or a transport failure (timeout, connection error)
AnswerCodes == {200, 404, 500}
Answer(code, body) == [kind |-> "response", code |-> code, body |-> body]
TransportFailure == [kind |-> "failure", code |-> 0, body |-> NoResult]
NoAnswer == [kind |-> "none", code |-> 0, body |-> NoResult]
AsrAnswers ==
    {Answer(c, b) : c \in AnswerCodes, b \in AsrResults} \cup {TransportFailure}
TtsAnswers == {Answer(c, NoResult) : c \in AnswerCodes} \cup {TransportFailure}

\* response.raise_for_status() raises
RaiseForStatus_never(code) == FALSE
RaiseForStatus(code) == code < 200 \/ code > 299

\* what a call of a client leaves its caller with
Returned(r) == [raised |-> FALSE, result |-> r]
Raises == [raised |-> TRUE, result |-> NoResult]
NoOutcome == [raised |-> FALSE, result |-> NoResult]

\* ASRServiceClient.transcribe from the answer of its single post on: an
\* error status raises, then the body is parsed and logged with
\* len(result.get("segments", [])), which raises for a null segment list
Transcribe(a) ==
    IF a.kind # "response" THEN Raises
    ELSE IF a.code # 200 /\ RaiseForStatus(a.code) THEN Raises
    ELSE IF a.body.segments.ty = "null" THEN Raises
    ELSE Returned(a.body)

\* `yield chunk` of synthesize_stream_http
YieldChunk(out, chunk) == Append(out, chunk)

\* ------------------------------------------------- synthesis service inputs
\* the messages a peer sends to the synthesis service's socket
TtsMessages == OtherMsgs \cup {Obj(t, NoSegs) : t \in TextVals}

\* How the synthesis service's tts_websocket parses one message:
\*   "json_error"    json.loads raised JSONDecodeError
\*   "exception"     another exception (TypeError, AttributeError)
\*   "missing_text"  `"text" not in message_data`
\*   "empty_text"    text falsy or blank
\*   "synthesize"    the text goes to the engine
TtsParse_nostrip(m) ==
    CASE m.top = "nonjson" -> "json_error"
      [] m.top = "scalar" -> "exception"
      [] m.top = "container" -> IF HasText(m) THEN "exception" ELSE "missing_text"
      [] m.top = "object" ->
            IF ~HasText(m) THEN "missing_text"
            ELSE IF ~Truthy(m.text) THEN "empty_text"
            ELSE IF m.text.ty # "str" THEN "exception"
            ELSE "synthesize"
TtsParse(m) ==
    CASE m.top = "nonjson" -> "json_error"
      [] m.top = "scalar" -> "exception"
      [] m.top = "container" -> IF HasText(m) THEN "exception" ELSE "missing_text"
      [] m.top = "object" ->
            IF ~HasText(m) THEN "missing_text"
            ELSE IF ~Truthy(m.text) THEN "empty_text"
            ELSE IF m.text.ty # "str" THEN "exception"
            ELSE IF strip(m.text.s) = <<>> THEN "empty_text"
            ELSE "synthesize"

\* TTSRequest.text: Field(..., min_length=1, max_length=1000)
MinTextLength == 1
MaxTextLength == 1000

\* the bodies posted to /api/tts: no text field, a text that is not a
\* string, or a string text, of which only the length matters
TextLengths == {0, MinTextLength, MinTextLength + 1, MaxTextLength - 1,
                MaxTextLength, MaxTextLength + 1}
TtsRequests ==
    {[field |-> "absent", len |-> 0], [field |-> "other", len |-> 0]}
        \cup {[field |-> "str", len |-> n] : n \in TextLengths}
NoTtsRequest == [field |-> "none", len |-> 0]

\* pydantic's validation of the body against TTSRequest
TtsValidate_nomax(q) == q.field = "str" /\ q.len >= MinTextLength
TtsValidate(q) ==
    q.field = "str" /\ q.len >= MinTextLength /\ q.len <= MaxTextLength

\* ---------------------------------------------------- recognition engine
\* settings.max_duration, in seconds
MaxDuration == 15
\* the longest sample array tried
MaxSamples == 32
\* the arguments of _validate_audio: the length of the sample array and the
\* sample rate
AudioRates == {0, 1, 2, 8000, 16000}
Audios == [len : 0..MaxSamples, sample_rate : AudioRates]
NoAudio == [len |-> 0 - 1, sample_rate |-> 0]

\* _validate_audio: "ok" when it returns, else the error it raises.
\* duration = len / sample_rate exceeds max_duration exactly when len
\* exceeds max_duration * sample_rate (sample_rate > 0).
ValidateAudio_noempty(a) ==
    IF a.sample_rate = 0 THEN "ZeroDivisionError"
    ELSE IF a.len > MaxDuration * a.sample_rate
    THEN "Audio duration exceeds maximum"
    ELSE "ok"
ValidateAudio(a) ==
    IF a.sample_rate = 0 THEN "ZeroDivisionError"
    ELSE IF a.len > MaxDuration * a.sample_rate
    THEN "Audio duration exceeds maximum"
    ELSE IF a.len = 0 THEN "Empty audio data"
    ELSE "ok"

\* ------------------------------------------------------ synthesis engine
\* the longest audio and the largest chunk_size tried
MaxAudio == 12
MaxChunkSize == 8
\* audio bytes: every byte is told apart by its position
AudioBytes(n) == [i \in 1..n |-> i]
Syntheses == [audio : {AudioBytes(n) : n \in 0..MaxAudio}, chunk_size : 1..MaxChunkSize]
NoSynthesis == [audio |-> <<>>, chunk_size |-> 0]

\* audio_bytes[start:end], both counted from 0
Slice(b, start, end) == SubSeq(b, start + 1, IF end < Len(b) THEN end ELSE Len(b))

\* the chunks synthesize_stream yields, in order: total_chunks full chunks,
\* then the remainder if there is one
SplitChunks_noremainder(b, cs) ==
    [i \in 1..(Len(b) \div cs) |-> Slice(b, (i - 1) * cs, (i - 1) * cs + cs)]
SplitChunks(b, cs) ==
    LET total_chunks == Len(b) \div cs
        remainder == Len(b) % cs
        full == [i \in 1..total_chunks |-> Slice(b, (i - 1) * cs, (i - 1) * cs + cs)]
    IN  IF remainder > 0
        THEN Append(full, Slice(b, total_chunks * cs, Len(b)))
        ELSE full

\* a call on the ConnectionManager: the method, the handle, whether it raised
Call(op, h, raised) == [op |-> op, handle |-> h, raised |-> raised]
NoCall == Call("none", "", FALSE)

\* the control frame that closes the answer to a message: the end message
\* when the engine's stream is exhausted, an error when it raised
ClosingFrame_error(ok) == BackendFrame("error", 0)
ClosingFrame(ok) == BackendFrame(IF ok THEN "end" ELSE "error", 0)

\* ---------------------------------------------------------------- actions
Init ==
    /\ pc = [s \in AllSessions |-> "new"]
    /\ active_connections = {}
    /\ clientOpen = [s \in AllSessions |-> TRUE]
    /\ request = [s \in AllSessions |-> NoMsg]
    /\ idx = [s \in AllSessions |-> 0]
    /\ cur = [s \in AllSessions |-> [text |-> <<>>, seg |-> 0]]
    /\ conns = [s \in AllSessions |-> <<>>]
    /\ sent = [s \in AllSessions |-> <<>>]
    /\ rd = [s \in AllSessions |-> 0]
    /\ delivered = [s \in AllSessions |-> <<>>]
    /\ epc = "idle"
    /\ ereq = NoRequest
    /\ easr = NoResult
    /\ eresp = NoResponse
    /\ ebody = <<>>
    /\ echunks = <<>>
    /\ asr_calls = 0
    /\ tts_calls = 0
    /\ hpc = "idle"
    /\ hans = EmptyDict
    /\ health_status = EmptyDict
    /\ hresp = NoHealthResponse
    /\ apc = "idle"
    /\ areq = NoRequest
    /\ aeng = NoEngineOutcome
    /\ aresp = NoAsrResponse
    /\ engine_calls = 0
    /\ cpc = "idle"
    /\ cans = NoAnswer
    /\ cout = NoOutcome
    /\ post_calls = 0
    /\ spc = "idle"
    /\ sans = NoAnswer
    /\ sread = <<>>
    /\ syield = <<>>
    /\ tpc = "new"
    /\ tclient = TRUE
    /\ tmsg = NoMsg
    /\ tgen = <<>>
    /\ tdone = "none"
    /\ tout = <<>>
    /\ ppc = "idle"
    /\ preq = NoTtsRequest
    /\ presp = 0
    /\ pbody = <<>>
    /\ synth_calls = 0
    /\ inhand = [s \in AllSessions |-> 0]
    /\ accepting = [s \in AllSessions |-> TRUE]
    /\ registry = <<>>
    /\ reg_last = NoCall
    /\ vin = NoAudio
    /\ vout = "none"
    /\ gin = NoSynthesis
    /\ gout = <<>>
    /\ engines = [k \in Backends |-> "healthy"]

\* ConnectionManager.connect: accept the socket and register it
connect(s) ==
    /\ pc[s] = "new"
    /\ UNCHANGED <<echovars, svcvars>>
    /\ clientOpen[s]
    /\ active_connections' = active_connections \cup {s}
    /\ pc' = [pc EXCEPT ![s] = "recv"]
    /\ UNCHANGED <<clientOpen, request, idx, cur, conns, sent, rd, delivered>>

\* ConnectionManager.disconnect
disconnect_all(s) == {}
disconnect_noop(s) == active_connections
disconnect(s) == active_connections \ {s}

\* An exception reaches `except Exception` of the message loop: the handler
\* sends {"error": "TTS generation failed: ..."}; when that send raises too
\* (the client is gone) the outer handler unregisters the session and exits.
\* d is the session's delivered log before the error frame.
HandlerCatches(s, d, k) ==
    IF clientOpen[s]
    THEN /\ delivered' = [delivered EXCEPT ![s] = Append(d, ErrFrame("TTS generation failed", k))]
         /\ pc' = [pc EXCEPT ![s] = "recv"]
         /\ UNCHANGED active_connections
    ELSE /\ delivered' = [delivered EXCEPT ![s] = d]
         /\ pc' = [pc EXCEPT ![s] = "closed"]
         /\ active_connections' = disconnect(s)

\* receive_text returns a message; tts_websocket parses it
Receive(s, m) ==
    /\ pc[s] = "recv"
    /\ UNCHANGED <<echovars, svcvars>>
    /\ clientOpen[s]
    /\ request' = [request EXCEPT ![s] = m]
    /\ conns' = [conns EXCEPT ![s] = <<>>]
    /\ sent' = [sent EXCEPT ![s] = <<>>]
    /\ rd' = [rd EXCEPT ![s] = 0]
    /\ UNCHANGED clientOpen
    /\ LET o == ParseOutcome(m) IN
       CASE o \in {"json_error", "empty_text", "empty_segments"} ->
               /\ delivered' = [delivered EXCEPT ![s] = <<ErrFrame(ErrorText(o), 0)>>]
               /\ UNCHANGED <<pc, active_connections, idx, cur>>
         [] o = "exception" ->
               /\ HandlerCatches(s, <<>>, 0)
               /\ UNCHANGED <<idx, cur>>
         [] o = "ignored" ->
               /\ delivered' = [delivered EXCEPT ![s] = <<>>]
               /\ UNCHANGED <<pc, active_connections, idx, cur>>
         [] o = "single" ->
               /\ delivered' = [delivered EXCEPT ![s] = <<>>]
               /\ cur' = [cur EXCEPT ![s] = [text |-> m.text.s, seg |-> 0]]
               /\ pc' = [pc EXCEPT ![s] = "connect"]
               /\ UNCHANGED <<active_connections, idx>>
         [] o = "segments" ->
               /\ delivered' = [delivered EXCEPT ![s] = <<>>]
               /\ idx' = [idx EXCEPT ![s] = 1]
               /\ pc' = [pc EXCEPT ![s] = "loop"]
               /\ UNCHANGED <<active_connections, cur>>

\* one iteration of `for segment in segments`, up to the call of
\* synthesize_stream_websocket; past the last segment the request is complete
LoopStep(s) ==
    /\ pc[s] = "loop"
    /\ UNCHANGED <<echovars, svcvars>>
    /\ UNCHANGED <<clientOpen, request, conns, sent, rd>>
    /\ LET segs == request[s].segments.items IN
       IF idx[s] > Len(segs)
       THEN /\ pc' = [pc EXCEPT ![s] = "recv"]
            /\ UNCHANGED <<active_connections, idx, cur, delivered>>
       ELSE LET k == SegmentOrder(segs)[idx[s]]
                a == OnSegment(segs[k])
            IN
            CASE a = "skip" ->
                    /\ idx' = [idx EXCEPT ![s] = @ + 1]
                    /\ UNCHANGED <<pc, active_connections, cur, delivered>>
              [] a = "raise" ->
                    /\ HandlerCatches(s, delivered[s], k)
                    /\ UNCHANGED <<idx, cur>>
              [] a = "relay" ->
                    /\ cur' = [cur EXCEPT ![s] = [text |-> segs[k].text.s, seg |-> k]]
                    /\ pc' = [pc EXCEPT ![s] = "connect"]
                    /\ UNCHANGED <<active_connections, idx, delivered>>

\* synthesize_stream_websocket: websockets.connect succeeds and the text is
\* sent, or the connection cannot be established and the exception is re-raised
OpenBackend(s, ok) ==
    /\ pc[s] = "connect"
    /\ UNCHANGED <<echovars, svcvars>>
    /\ UNCHANGED <<clientOpen, request, idx, cur>>
    /\ IF ok
       THEN /\ conns' = [conns EXCEPT ![s] = Append(@, NewConn(cur[s]))]
            /\ sent' = [sent EXCEPT ![s] = <<>>]
            /\ rd' = [rd EXCEPT ![s] = 0]
            /\ pc' = [pc EXCEPT ![s] = "relay"]
            /\ UNCHANGED <<active_connections, delivered>>
       ELSE /\ HandlerCatches(s, delivered[s], cur[s].seg)
            /\ UNCHANGED <<conns, sent, rd>>

\* the session's connections with the current one closed
ExitCycle(s) == [conns EXCEPT ![s] = [@ EXCEPT ![Len(@)] = CloseOnExit(@)]]

\* synthesize_stream_websocket returned normally: a single-text request is
\* complete, a segments request goes on with the next segment
CycleReturns(s) ==
    IF HasText(request[s])
    THEN /\ pc' = [pc EXCEPT ![s] = "recv"]
         /\ UNCHANGED idx
    ELSE /\ pc' = [pc EXCEPT ![s] = "loop"]
         /\ idx' = [idx EXCEPT ![s] = @ + 1]

\* the frames of a connection are gone with it
Drained(s) ==
    /\ sent' = [sent EXCEPT ![s] = <<>>]
    /\ rd' = [rd EXCEPT ![s] = 0]

\* one iteration of `async for message in tts_websocket`: what it does to
\* the session
RelayEffect(s) ==
    /\ pc[s] = "relay"
    /\ rd[s] < Len(sent[s])
    /\ UNCHANGED <<clientOpen, request, cur>>
    /\ LET c == Current(s)
           f == sent[s][rd[s] + 1]
           a == OnFrame(f)
       IN
       CASE a = "skip" ->
               /\ rd' = [rd EXCEPT ![s] = @ + 1]
               /\ UNCHANGED <<pc, active_connections, idx, conns, sent, delivered>>
         [] a = "forward" /\ clientOpen[s] ->
               /\ rd' = [rd EXCEPT ![s] = @ + 1]
               /\ delivered' = [delivered EXCEPT ![s] = Append(@, BinFrame(f.data, c.seg))]
               /\ UNCHANGED <<pc, active_connections, idx, conns, sent>>
         [] a = "end" /\ clientOpen[s] ->
               /\ conns' = ExitCycle(s)
               /\ Drained(s)
               /\ delivered' = [delivered EXCEPT ![s] = Append(@, EndFrame(c.seg))]
               /\ CycleReturns(s)
               /\ UNCHANGED active_connections
         [] a = "stop" ->
               /\ conns' = ExitCycle(s)
               /\ Drained(s)
               /\ CycleReturns(s)
               /\ UNCHANGED <<active_connections, delivered>>
         [] OTHER ->
               \* the send to the client raised, or the iterator raised
               /\ conns' = ExitCycle(s)
               /\ Drained(s)
               /\ HandlerCatches(s, delivered[s], c.seg)
               /\ UNCHANGED idx

RelayFrame(s) ==
    /\ RelayEffect(s)
    /\ UNCHANGED <<echovars, svcvars>>

\* the synthesis backend sends a frame on the open connection, once the
\* gateway has taken the previous one
BackendSend(s, kind) ==
    /\ pc[s] = "relay"
    /\ UNCHANGED <<echovars, svcvars>>
    /\ ~BackendClosed(s)
    /\ rd[s] = Len(sent[s])
    /\ Len(sent[s]) < MaxFrames
    /\ sent' = [sent EXCEPT ![s] = Append(@, BackendFrame(kind, Len(@) + 1))]
    /\ UNCHANGED <<pc, active_connections, clientOpen, request, idx, cur,
                   conns, rd, delivered>>

\* the synthesis backend closes the connection, normally or not
BackendClose(s, ok) ==
    /\ pc[s] = "relay"
    /\ UNCHANGED <<echovars, svcvars>>
    /\ ~BackendClosed(s)
    /\ rd[s] = Len(sent[s])
    /\ sent' = [sent EXCEPT ![s] = Append(@, CloseFrame(ok))]
    /\ UNCHANGED <<pc, active_connections, clientOpen, request, idx, cur,
                   conns, rd, delivered>>

\* the client closes its side of the socket
ClientDisconnect(s) ==
    /\ pc[s] \notin {"new", "closed"}
    /\ UNCHANGED <<echovars, svcvars>>
    /\ clientOpen[s]
    /\ clientOpen' = [clientOpen EXCEPT ![s] = FALSE]
    /\ UNCHANGED <<pc, active_connections, request, idx, cur, conns, sent, rd,
                   delivered>>

\* receive_text raises WebSocketDisconnect: unregister and exit
ReceiveDisconnect(s) ==
    /\ pc[s] = "recv"
    /\ UNCHANGED <<echovars, svcvars>>
    /\ ~clientOpen[s]
    /\ pc' = [pc EXCEPT ![s] = "closed"]
    /\ active_connections' = disconnect(s)
    /\ UNCHANGED <<clientOpen, request, idx, cur, conns, sent, rd, delivered>>

\* receive_text raises on a binary frame of the client: the exception is
\* raised outside the try block of the message loop, so it reaches the outer
\* `except Exception`, which unregisters the session; the handler exits
ReceiveBinary(s) ==
    /\ pc[s] = "recv"
    /\ UNCHANGED <<echovars, svcvars>>
    /\ clientOpen[s]
    /\ request' = [request EXCEPT ![s] = BinaryMsg]
    /\ conns' = [conns EXCEPT ![s] = <<>>]
    /\ delivered' = [delivered EXCEPT ![s] = <<>>]
    /\ pc' = [pc EXCEPT ![s] = "closed"]
    /\ active_connections' = disconnect(s)
    /\ UNCHANGED <<clientOpen, idx, cur, sent, rd>>

\* echo_bytes up to the call of transcribe: validation, then the request
\* is either answered by the exception handler or handed to recognition
echo_bytes(q) ==
    /\ epc = "idle"
    /\ ereq' = q
    /\ IF Validate(q) # NoException
       THEN /\ eresp' = HandledResponse(http_exception_handler(Validate(q)))
            /\ epc' = "done"
            /\ UNCHANGED asr_calls
       ELSE /\ asr_calls' = asr_calls + 1
            /\ epc' = "asr"
            /\ UNCHANGED eresp
    /\ UNCHANGED <<easr, ebody, echunks, tts_calls, wsvars, svcvars>>

\* transcribe raises (error status or transport failure): degraded response
transcribe_raises ==
    /\ epc = "asr"
    /\ eresp' = EmptyResponse
    /\ epc' = "done"
    /\ UNCHANGED <<ereq, easr, ebody, echunks, asr_calls, tts_calls, wsvars, svcvars>>

\* transcribe returns r; echo_bytes builds the response.  len(segments)
\* raises for a null segment list, which the handler treats like a failed
\* recognition.
transcribe_returns(r) ==
    /\ epc = "asr"
    /\ easr' = r
    /\ IF r.segments.ty = "null" \/ strip(RecognizedText(r)) = <<>>
       THEN /\ eresp' = EmptyResponse
            /\ epc' = "done"
            /\ UNCHANGED tts_calls
       ELSE /\ eresp' = [sent |-> TRUE, status |-> 200,
                         text |-> RecognizedText(r),
                         segments |-> IF r.segments.items # <<>>
                                      THEN json_dumps(r.segments.items)
                                      ELSE EmptyJsonList]
            /\ tts_calls' = tts_calls + 1
            /\ epc' = "stream"
    /\ UNCHANGED <<ereq, ebody, echunks, asr_calls, wsvars, svcvars>>

\* generate_echo_stream yields the next chunk of synthesize_stream_http
stream_chunk ==
    /\ epc = "stream"
    /\ Len(echunks) < MaxChunks
    /\ LET chunk == Len(echunks) + 1 IN
          /\ echunks' = Append(echunks, chunk)
          /\ ebody' = Yield(ebody, chunk)
    /\ UNCHANGED <<epc, ereq, easr, eresp, asr_calls, tts_calls, wsvars, svcvars>>

\* the synthesis stream ends, or it fails, generate_echo_stream catches the
\* exception and returns: the body stops where it is
stream_ends(ok) ==
    /\ epc = "stream"
    /\ epc' = StreamOutcome(ok)
    /\ UNCHANGED <<ereq, easr, eresp, ebody, echunks, asr_calls, tts_calls, wsvars, svcvars>>

Next ==
    \E s \in Sessions :
        \/ connect(s)
        \/ \E m \in Messages : Receive(s, m)
        \/ LoopStep(s)
        \/ \E ok \in BOOLEAN : OpenBackend(s, ok)
        \/ RelayFrame(s)
        \/ \E kind \in FrameKinds : BackendSend(s, kind)
        \/ \E ok \in BOOLEAN : BackendClose(s, ok)
        \/ ClientDisconnect(s)
        \/ ReceiveDisconnect(s)
        \/ ReceiveBinary(s)

Spec == Init /\ [][Next]_vars

\* the steps of a session's handler: the event loop runs a handler that can
\* go on, whereas nothing obliges the backend or the client to act
HandlerNext(s) ==
    \/ LoopStep(s)
    \/ \E ok \in BOOLEAN : OpenBackend(s, ok)
    \/ RelayFrame(s)
    \/ ReceiveDisconnect(s)

SpecFair == Spec /\ \A s \in Sessions : WF_vars(HandlerNext(s))

\* Several sessions at once: every tts_websocket call is a coroutine of its
\* own on the event loop, with its own client socket and its own ephemeral
\* backend connections; the sessions share the registry only.  The clients
\* send well-formed requests and the backend answers with audio and end
\* frames, or not at all.
SessionMsgs ==
    {Obj(Str(<<" ", "a">>), NoSegs),
     Obj(Absent, Segs(<<[text |-> Str(<<" ", "a">>)]>>))}
SessionFrames == {"bin", "end"}

NextSessions ==
    \E s \in AllSessions :
        \/ connect(s)
        \/ \E m \in SessionMsgs : Receive(s, m)
        \/ LoopStep(s)
        \/ \E ok \in BOOLEAN : OpenBackend(s, ok)
        \/ RelayFrame(s)
        \/ \E kind \in SessionFrames : BackendSend(s, kind)
        \/ ClientDisconnect(s)
        \/ ReceiveDisconnect(s)
        \/ ReceiveBinary(s)

SpecSessions == Init /\ [][NextSessions]_vars

\* GET /health: health_check calls check_services_health
health_check ==
    /\ hpc = "idle"
    /\ hpc' = "tts"
    /\ UNCHANGED <<hans, health_status, hresp, restHealth>>

\* check_services_health probes the synthesis backend
probe_tts(a) ==
    /\ hpc = "tts"
    /\ hans' = DictSet(hans, "tts", a)
    /\ IF Probe(a).raised
       THEN /\ hpc' = "done"
            /\ hresp' = HealthFailure
            /\ UNCHANGED health_status
       ELSE /\ hpc' = "asr"
            /\ health_status' = DictSet(health_status, "tts", Probe(a).value)
            /\ UNCHANGED hresp
    /\ UNCHANGED restHealth

\* check_services_health probes the recognition backend and returns;
\* health_check builds its response
probe_asr(a) ==
    /\ hpc = "asr"
    /\ hans' = DictSet(hans, "asr", a)
    /\ hpc' = "done"
    /\ IF Probe(a).raised
       THEN /\ hresp' = HealthFailure
            /\ UNCHANGED health_status
       ELSE /\ health_status' = DictSet(health_status, "asr", Probe(a).value)
            /\ hresp' = HealthResponse(Aggregate(health_status'), health_status')
    /\ UNCHANGED restHealth

\* the engine of a backend service changes its health
engine_changes(k, e) ==
    /\ engines[k] # e
    /\ engines' = [engines EXCEPT ![k] = e]
    /\ UNCHANGED <<wsvars, echovars, healthvars, asrvars, clivars, ttsvars,
                   ttshttpvars, flowvars, regvars, enginevars>>

\* the probes of check_services_health, answered by the services' own
\* health_check or not answered at all
probe_tts_service == probe_tts(ServiceHealth(engines["tts"]))
probe_asr_service == probe_asr(ServiceHealth(engines["asr"]))

NextHealthComposed ==
    \/ health_check
    \/ probe_tts_service
    \/ probe_asr_service
    \/ \E a \in Unreachable : probe_tts(a)
    \/ \E a \in Unreachable : probe_asr(a)
    \/ \E k \in Backends, e \in EngineHealth : engine_changes(k, e)

SpecHealthComposed == Init /\ [][NextHealthComposed]_vars

NextHealth ==
    \/ health_check
    \/ \E a \in ProbeAnswers : probe_tts(a)
    \/ \E a \in ProbeAnswers : probe_asr(a)

SpecHealth == Init /\ [][NextHealth]_vars

\* POST /api/stt/bytes of the recognition service, the whole handler: the
\* checks, the engine call (with outcome e) and the except clauses
stt_bytes(q, e) ==
    /\ apc = "idle"
    /\ apc' = "done"
    /\ areq' = q
    /\ IF AsrValidate(q) # NotRaised
       THEN /\ aresp' = AsrErrorResponse(AsrExcept(AsrValidate(q)))
            /\ UNCHANGED <<aeng, engine_calls>>
       ELSE /\ engine_calls' = engine_calls + 1
            /\ aeng' = e
            /\ aresp' = IF EngineRaised(e) # NotRaised
                        THEN AsrErrorResponse(AsrExcept(EngineRaised(e)))
                        ELSE AsrSuccess(e)
    /\ UNCHANGED restAsr

NextAsr == \E q \in EchoRequests, e \in EngineOutcomes : stt_bytes(q, e)

SpecAsr == Init /\ [][NextAsr]_vars

\* ASRServiceClient.transcribe, the whole call, with the answer a of the
\* backend
transcribe(a) ==
    /\ cpc = "idle"
    /\ cpc' = "done"
    /\ post_calls' = post_calls + 1
    /\ cans' = a
    /\ cout' = Transcribe(a)
    /\ UNCHANGED <<spc, sans, sread, syield, restCli>>

\* synthesize_stream_http up to its first chunk: the request is sent and
\* the status of the answer checked
synthesize_stream_http(a) ==
    /\ spc = "idle"
    /\ sans' = a
    /\ spc' = IF a.kind # "response" \/ RaiseForStatus(a.code)
              THEN "raised" ELSE "open"
    /\ UNCHANGED <<cpc, cans, cout, post_calls, sread, syield, restCli>>

\* one iteration of `async for chunk in response.aiter_bytes(): yield chunk`
next_chunk ==
    /\ spc = "open"
    /\ Len(sread) < MaxChunks
    /\ LET chunk == Len(sread) + 1 IN
          /\ sread' = Append(sread, chunk)
          /\ syield' = YieldChunk(syield, chunk)
    /\ UNCHANGED <<cpc, cans, cout, post_calls, spc, sans, restCli>>

\* the body is complete and the generator ends, or reading the next chunk
\* fails and the generator re-raises
body_ends(ok) ==
    /\ spc = "open"
    /\ spc' = IF ok THEN "ended" ELSE "raised"
    /\ UNCHANGED <<cpc, cans, cout, post_calls, sans, sread, syield, restCli>>

NextClients ==
    \/ \E a \in AsrAnswers : transcribe(a)
    \/ \E a \in TtsAnswers : synthesize_stream_http(a)
    \/ next_chunk
    \/ \E ok \in BOOLEAN : body_ends(ok)

SpecClients == Init /\ [][NextClients]_vars

\* the synthesis service accepts a socket
tts_accept ==
    /\ tpc = "new"
    /\ tclient
    /\ tpc' = "recv"
    /\ UNCHANGED <<tclient, tmsg, tgen, tdone, tout, restTts>>

\* the synthesis service's tts_websocket receives and parses a message
tts_receive(m) ==
    /\ tpc = "recv"
    /\ tclient
    /\ tmsg' = m
    /\ tgen' = <<>>
    /\ tdone' = "none"
    /\ IF TtsParse(m) = "synthesize"
       THEN /\ tout' = <<>>
            /\ tpc' = "stream"
       ELSE /\ tout' = <<BackendFrame("error", 0)>>
            /\ tpc' = "recv"
    /\ UNCHANGED <<tclient, restTts>>

\* one iteration of `async for chunk in tts_engine.synthesize_stream(text)`:
\* the engine yields a chunk and send_binary sends it; when the peer has
\* gone the send raises, and so does the send of the error message, so the
\* outer except ends the handler
tts_chunk ==
    /\ tpc = "stream"
    /\ Len(tgen) < MaxChunks
    /\ tgen' = Append(tgen, Len(tgen) + 1)
    /\ IF tclient
       THEN /\ tout' = Append(tout, BackendFrame("bin", Len(tgen) + 1))
            /\ UNCHANGED tpc
       ELSE /\ tpc' = "closed"
            /\ UNCHANGED tout
    /\ UNCHANGED <<tclient, tmsg, tdone, restTts>>

\* the engine's stream is exhausted (ok) or raises: the end message or the
\* error message is sent and the handler waits for the next message
tts_finish(ok) ==
    /\ tpc = "stream"
    /\ tdone' = IF ok THEN "complete" ELSE "failed"
    /\ IF tclient
       THEN /\ tout' = Append(tout, ClosingFrame(ok))
            /\ tpc' = "recv"
       ELSE /\ tpc' = "closed"
            /\ UNCHANGED tout
    /\ UNCHANGED <<tclient, tmsg, tgen, restTts>>

\* the peer of the synthesis service's socket goes away
tts_peer_gone ==
    /\ tpc \in {"recv", "stream"}
    /\ tclient
    /\ tclient' = FALSE
    /\ UNCHANGED <<tpc, tmsg, tgen, tdone, tout, restTts>>

\* receive_text raises WebSocketDisconnect
tts_disconnect ==
    /\ tpc = "recv"
    /\ ~tclient
    /\ tpc' = "closed"
    /\ UNCHANGED <<tclient, tmsg, tgen, tdone, tout, restTts>>

\* receive_text raises KeyError on a binary frame, outside the inner try:
\* the outer `except Exception` unregisters the socket and the handler exits
tts_receive_binary ==
    /\ tpc = "recv"
    /\ tclient
    /\ tmsg' = BinaryMsg
    /\ tgen' = <<>>
    /\ tdone' = "none"
    /\ tout' = <<>>
    /\ tpc' = "closed"
    /\ UNCHANGED <<tclient, restTts>>

\* POST /api/tts: a body that fails validation is answered 422 before
\* tts_http runs; otherwise tts_http returns the streaming response, whose
\* generator calls the engine
tts_http(q) ==
    /\ ppc = "idle"
    /\ preq' = q
    /\ pbody' = <<>>
    /\ IF TtsValidate(q)
       THEN /\ presp' = 200
            /\ synth_calls' = synth_calls + 1
            /\ ppc' = "stream"
       ELSE /\ presp' = 422
            /\ ppc' = "done"
            /\ UNCHANGED synth_calls
    /\ UNCHANGED restTtsHttp

\* generate_audio yields a chunk of the engine
tts_http_chunk ==
    /\ ppc = "stream"
    /\ Len(pbody) < MaxChunks
    /\ pbody' = Append(pbody, Len(pbody) + 1)
    /\ UNCHANGED <<ppc, preq, presp, synth_calls, restTtsHttp>>

\* the engine's stream is exhausted, or it raises and generate_audio
\* returns: either way the body ends
tts_http_ends ==
    /\ ppc = "stream"
    /\ ppc' = "done"
    /\ UNCHANGED <<preq, presp, pbody, synth_calls, restTtsHttp>>

NextTts ==
    \/ tts_accept
    \/ \E m \in TtsMessages : tts_receive(m)
    \/ tts_receive_binary
    \/ tts_chunk
    \/ \E ok \in BOOLEAN : tts_finish(ok)
    \/ tts_peer_gone
    \/ tts_disconnect
    \/ \E q \in TtsRequests : tts_http(q)
    \/ tts_http_chunk
    \/ tts_http_ends

SpecTts == Init /\ [][NextTts]_vars

\* ------------------------------------------------ the ConnectionManager
\* the handles a caller may pass to the ConnectionManager, and the client ids
Handles == AllSessions \cup {"ws3"}
ClientIds == {"client_1", "client_2"}

\* a dict as the sequence of its entries
DictHas(d, k) == \E i \in DOMAIN d : d[i].key = k

\* d[k] = v: the entry of k gets the value, a new key gets a new entry
DictAssign_append(d, k, v) == Append(d, [key |-> k, value |-> v])
DictAssign(d, k, v) ==
    IF DictHas(d, k)
    THEN [i \in DOMAIN d |-> IF d[i].key = k THEN [key |-> k, value |-> v] ELSE d[i]]
    ELSE Append(d, [key |-> k, value |-> v])

\* d.pop(k), for a key of d
DictPop(d, k) == SelectSeq(d, LAMBDA e : e.key # k)

\* ConnectionManager.connect(websocket, client_id): when accept raises,
\* nothing is registered
manager_connect(h, cid, accepted) ==
    /\ registry' = IF accepted THEN DictAssign(registry, h, cid) ELSE registry
    /\ reg_last' = Call("connect", h, ~accepted)
    /\ UNCHANGED restReg

\* ConnectionManager.disconnect(websocket)
manager_disconnect(h) ==
    /\ registry' = IF DictHas(registry, h) THEN DictPop(registry, h) ELSE registry
    /\ reg_last' = Call("disconnect", h, FALSE)
    /\ UNCHANGED restReg

NextRegistry ==
    \E h \in Handles :
        \/ \E cid \in ClientIds, accepted \in BOOLEAN : manager_connect(h, cid, accepted)
        \/ manager_disconnect(h)

SpecRegistry == Init /\ [][NextRegistry]_vars

\* a call of ASREngine._validate_audio
validate_audio(a) ==
    /\ vin' = a
    /\ vout' = ValidateAudio(a)
    /\ UNCHANGED <<gin, gout, restEngine>>

NextEngine == \E a \in Audios : validate_audio(a)

SpecEngine == Init /\ [][NextEngine]_vars

\* TTSEngine.synthesize_stream run to its end on the audio of a text
synthesize_stream(g) ==
    /\ gin' = g
    /\ gout' = SplitChunks(g.audio, g.chunk_size)
    /\ UNCHANGED <<vin, vout, restEngine>>

NextChunks == \E g \in Syntheses : synthesize_stream(g)

SpecChunks == Init /\ [][NextChunks]_vars

\* ------------------------------------------- the relay loop, step by step
\* `async for message in tts_websocket` asks for the next frame only when
\* the body of the previous iteration is over
CanTake_eager(s) == TRUE
CanTake(s) == inhand[s] = 0

\* the frame the loop body is working on
InHand(s) == sent[s][rd[s] + 1]

\* the body's write to the client returns: the frame needs no write, the
\* socket takes it, or the socket is closed and the write raises
WriteReturns(s) ==
    \/ OnFrame(InHand(s)) \notin {"forward", "end"}
    \/ accepting[s]
    \/ ~clientOpen[s]

\* the loop takes the next frame of the backend connection
TakeFrame(s) ==
    /\ pc[s] = "relay"
    /\ CanTake(s)
    /\ rd[s] + inhand[s] < Len(sent[s])
    /\ inhand' = [inhand EXCEPT ![s] = @ + 1]
    /\ UNCHANGED <<wsvars, accepting, restFlow>>

\* the loop body runs on the frame taken: RelayEffect, once the write to
\* the client has returned
Forward(s) ==
    /\ inhand[s] > 0
    /\ WriteReturns(s)
    /\ RelayEffect(s)
    /\ inhand' = [inhand EXCEPT ![s] = IF pc'[s] = "relay" THEN @ - 1 ELSE 0]
    /\ UNCHANGED <<accepting, restFlow>>

\* the backend sends a frame, whether or not the gateway has taken the
\* previous ones
BackendQueue(s, kind) ==
    /\ pc[s] = "relay"
    /\ ~BackendClosed(s)
    /\ Len(sent[s]) < MaxFrames
    /\ sent' = [sent EXCEPT ![s] = Append(@, BackendFrame(kind, Len(@) + 1))]
    /\ UNCHANGED <<pc, active_connections, clientOpen, request, idx, cur,
                   conns, rd, delivered>>
    /\ UNCHANGED <<echovars, svcvars>>

\* the client stops reading its socket, or reads again
ClientStalls(s) ==
    /\ pc[s] \notin {"new", "closed"}
    /\ clientOpen[s]
    /\ accepting[s]
    /\ accepting' = [accepting EXCEPT ![s] = FALSE]
    /\ UNCHANGED <<wsvars, inhand, restFlow>>

ClientResumes(s) ==
    /\ clientOpen[s]
    /\ ~accepting[s]
    /\ accepting' = [accepting EXCEPT ![s] = TRUE]
    /\ UNCHANGED <<wsvars, inhand, restFlow>>

NextBlocking ==
    \E s \in Sessions :
        \/ connect(s)
        \/ \E m \in SessionMsgs : Receive(s, m)
        \/ LoopStep(s)
        \/ \E ok \in BOOLEAN : OpenBackend(s, ok)
        \/ TakeFrame(s)
        \/ Forward(s)
        \/ \E kind \in FrameKinds : BackendQueue(s, kind)
        \/ \E ok \in BOOLEAN : BackendClose(s, ok)
        \/ ClientStalls(s)
        \/ ClientResumes(s)
        \/ ClientDisconnect(s)
        \/ ReceiveDisconnect(s)

SpecBlocking == Init /\ [][NextBlocking]_vars

\* ------------------------------ the relay composed with the synthesis service
\* The gateway's ephemeral connection is served by the synthesis service's
\* tts_websocket.  The service runs one handler per connection; the model
\* keeps the state of one handler, so a connection is dialled when the
\* handler of the previous one has ended.
Dial(s, ok) ==
    /\ tpc \in {"new", "closed"}
    /\ OpenBackend(s, ok)

\* the gateway's relay cycle holds an open connection to the service
Connected(s) == pc[s] = "relay" /\ conns[s] # <<>> /\ Current(s).open

\* the service accepts the gateway's connection: a fresh tts_websocket call
svc_accept(s) ==
    /\ Connected(s)
    /\ tpc \in {"new", "closed"}
    /\ tpc' = "recv"
    /\ tclient' = TRUE
    /\ tmsg' = NoMsg
    /\ tgen' = <<>>
    /\ tdone' = "none"
    /\ tout' = <<>>
    /\ UNCHANGED restTts

\* the service receives the {"text": text} message the gateway sent on
\* entering the connection
svc_receive(s) ==
    /\ Connected(s)
    /\ tmsg = NoMsg
    /\ tts_receive(Obj(Str(Current(s).text), NoSegs))

\* a frame the service has sent arrives at the gateway's end of the
\* connection
Wire(s) ==
    /\ Connected(s)
    /\ tclient
    /\ tpc \in {"recv", "stream"}
    /\ Len(sent[s]) < Len(tout)
    /\ sent' = [sent EXCEPT ![s] = Append(@, tout[Len(@) + 1])]
    /\ UNCHANGED <<pc, active_connections, clientOpen, request, idx, cur,
                   conns, rd, delivered>>
    /\ UNCHANGED <<echovars, svcvars>>

\* the gateway has left its `async with` block: the service's peer is gone
svc_peer_gone(s) ==
    /\ ~Connected(s)
    /\ tts_peer_gone

\* the steps of the service's handler and of the connection
ServiceNext(s) ==
    \/ svc_accept(s)
    \/ svc_receive(s)
    \/ tts_chunk
    \/ \E ok \in BOOLEAN : tts_finish(ok)
    \/ svc_peer_gone(s)
    \/ tts_disconnect
    \/ Wire(s)

\* the steps of the gateway's handler
GatewayNext(s) ==
    \/ LoopStep(s)
    \/ \E ok \in BOOLEAN : Dial(s, ok)
    \/ RelayFrame(s)

\* the client connects, sends messages and stays connected
NextComposed ==
    \E s \in Sessions :
        \/ connect(s)
        \/ \E m \in Messages : Receive(s, m)
        \/ GatewayNext(s)
        \/ ServiceNext(s)

\* both event loops run their handlers and the connection delivers
SpecComposed ==
    /\ Init
    /\ [][NextComposed]_vars
    /\ \A s \in Sessions : WF_vars(GatewayNext(s)) /\ WF_vars(ServiceNext(s))

NextEcho ==
    \/ \E q \in EchoRequests : echo_bytes(q)
    \/ transcribe_raises
    \/ \E r \in AsrResults : transcribe_returns(r)
    \/ stream_chunk
    \/ \E ok \in BOOLEAN : stream_ends(ok)

SpecEcho == Init /\ [][NextEcho]_vars

\* The gateway process serves both endpoints: a full-duplex session, whose
\* backend answers each text with the end frame, next to the one-way
\* pipeline.  The session's messages carry blank and non-blank texts, the
\* one-way requests are valid ones.
GatewayMsgs ==
    {Obj(Str(t), NoSegs) : t \in Texts}
        \cup {Obj(Absent, Segs(<<[text |-> Str(<<" ">>)], [text |-> Str(<<" ", "a">>)]>>)),
              Obj(Absent, Segs(<<[text |-> Str(<<" ", "a">>)], [text |-> Str(<<>>)]>>))}
GatewayRequests == {q \in EchoRequests : Validate(q) = NoException}

NextGateway ==
    \/ \E s \in Sessions :
          \/ connect(s)
          \/ \E m \in GatewayMsgs : Receive(s, m)
          \/ LoopStep(s)
          \/ \E ok \in BOOLEAN : OpenBackend(s, ok)
          \/ RelayFrame(s)
          \/ BackendSend(s, "end")
    \/ \E q \in GatewayRequests : echo_bytes(q)
    \/ transcribe_raises
    \/ \E r \in AsrResults : transcribe_returns(r)
    \/ stream_chunk
    \/ \E ok \in BOOLEAN : stream_ends(ok)

SpecGateway == Init /\ [][NextGateway]_vars

\* ------------------------------------------------- full-duplex properties
\* a string with no character other than whitespace (the empty one included)
IsBlank(t) == \A i \in DOMAIN t : t[i] \in Whitespace

\* the client message {text: t} with t empty or whitespace-only
BlankTextMsg(m) == m.top = "object" /\ m.text.ty = "str" /\ IsBlank(m.text.s)
\* a client message whose text is a string with a non-whitespace character
ValidTextMsg(m) == m.top = "object" /\ m.text.ty = "str" /\ ~IsBlank(m.text.s)
\* {segments: [...]} without a text key
SegmentsMsg(m) == m.top = "object" /\ m.text.ty = "absent" /\ m.segments.present
\* JSON that has neither key: {} and the like, null, numbers, strings, arrays
NeitherKeyMsg(m) ==
    \/ m.top = "object" /\ m.text.ty = "absent" /\ ~m.segments.present
    \/ m.top = "scalar"
    \/ m.top = "container" /\ ~m.has_text /\ ~m.has_segments

ErrorFrames(s) == {i \in DOMAIN delivered[s] : delivered[s][i].kind = "error"}

\* the session is still served, or it ended because its client went away
StillOpen(s) ==
    \/ pc[s] = "recv" /\ s \in active_connections
    \/ pc[s] = "closed" /\ ~clientOpen[s]

\* C1: within one request, every frame delivered for a segment (binary or
\* end marker) comes before every binary frame of a later segment.
C1_SegmentOrder ==
    \A s \in AllSessions : \A i, j \in DOMAIN delivered[s] :
        ( /\ delivered[s][i].kind \in {"bin", "end"}
          /\ delivered[s][j].kind = "bin"
          /\ delivered[s][i].seg < delivered[s][j].seg ) => i < j

C1_Witness ==
    \E s \in Sessions : \E i, j, k \in DOMAIN delivered[s] :
        /\ i < j /\ j < k
        /\ delivered[s][i] = BinFrame(1, 1)
        /\ delivered[s][j] = EndFrame(1)
        /\ delivered[s][k] = BinFrame(1, 2)

\* C2: a backend connection of a session is open only while it is the latest
\* one and its relay cycle is running; so at most one is open per session,
\* and every earlier one was closed before the next was opened.
C2_OneBackendConnection ==
    \A s \in AllSessions :
        /\ \A i \in DOMAIN conns[s] :
              conns[s][i].open => (i = Len(conns[s]) /\ pc[s] = "relay")
        /\ pc[s] = "relay" => (conns[s] # <<>> /\ Current(s).open)

C2_Witness ==
    \E s \in Sessions :
        /\ Len(conns[s]) = 2
        /\ ~conns[s][1].open
        /\ conns[s][2].open

\* C5: after {text: ""} or whitespace-only text the client has got exactly
\* one error frame and nothing else, no backend connection was opened, and
\* the session is still registered and waiting ...
C5_State ==
    \A s \in AllSessions :
        BlankTextMsg(request[s]) =>
            /\ Len(delivered[s]) = 1
            /\ delivered[s][1].kind = "error"
            /\ conns[s] = <<>>
            /\ StillOpen(s)

\* ... and a valid message that follows it is taken for relay.
C5_Next ==
    \A s \in AllSessions :
        (BlankTextMsg(request[s]) /\ ValidTextMsg(request'[s])) =>
            /\ pc'[s] = "connect"
            /\ cur'[s] = [text |-> request'[s].text.s, seg |-> 0]
            /\ delivered'[s] = <<>>
            /\ s \in active_connections'

C5_EmptyText == [](C5_State) /\ [][C5_Next]_vars

C5_Witness ==
    \E s \in Sessions :
        /\ BlankTextMsg(request[s])
        /\ request[s].text.s # <<>>
        /\ Len(delivered[s]) = 1
        /\ pc[s] = "recv" /\ clientOpen[s] /\ s \in active_connections

\* C6: a message that is not JSON, and {segments: []}, each get exactly one
\* error frame, open no backend connection, and leave the session waiting.
C6_Malformed ==
    \A s \in AllSessions :
        ( \/ request[s].top = "nonjson"
          \/ SegmentsMsg(request[s]) /\ request[s].segments.items = <<>> ) =>
            /\ Len(delivered[s]) = 1
            /\ delivered[s][1].kind = "error"
            /\ conns[s] = <<>>
            /\ StillOpen(s)

C6_Witness ==
    \E s \in Sessions :
        /\ SegmentsMsg(request[s]) /\ request[s].segments.items = <<>>
        /\ Len(delivered[s]) = 1
        /\ pc[s] = "recv" /\ clientOpen[s] /\ s \in active_connections

\* C7: a JSON message with neither a text nor a segments field gets exactly
\* one error frame.
C7_MissingField ==
    \A s \in AllSessions :
        NeitherKeyMsg(request[s]) =>
            /\ Len(delivered[s]) = 1
            /\ delivered[s][1].kind = "error"

\* the text items a request asks for: its text, or the segments whose text
\* is a string with a non-whitespace character, in the order given
RECURSIVE RelayItems(_, _)
RelayItems(segs, k) ==
    IF k > Len(segs) THEN <<>>
    ELSE (IF segs[k].text.ty = "str" /\ ~IsBlank(segs[k].text.s)
          THEN <<[text |-> segs[k].text.s, seg |-> k]>> ELSE <<>>)
         \o RelayItems(segs, k + 1)

Expected(m) ==
    IF ValidTextMsg(m) THEN <<[text |-> m.text.s, seg |-> 0]>>
    ELSE IF SegmentsMsg(m) THEN RelayItems(m.segments.items, 1)
    ELSE <<>>

\* the backend cycles of the current request: the text sent and its item
Cycles(s) ==
    [i \in DOMAIN conns[s] |-> [text |-> conns[s][i].text, seg |-> conns[s][i].seg]]

IsPrefix(a, b) == Len(a) <= Len(b) /\ SubSeq(b, 1, Len(a)) = a

\* the request was handled to its end without any error frame
CompletedCleanly(s) == pc[s] = "recv" /\ ErrorFrames(s) = {}

HasRead(s, kind) == \E i \in 1..rd[s] : sent[s][i].kind = kind

\* the next frame the session's relay cycle reads is of this kind
NextFrameIs(s, kind) ==
    pc[s] = "relay" /\ rd[s] < Len(sent[s]) /\ sent[s][rd[s] + 1].kind = kind

\* the session's handler takes a step
HandlerStep(s) == pc'[s] # pc[s] \/ rd'[s] # rd[s]

\* C9: per text item the client gets at most one end marker, and no binary
\* frame of the item after it ...
C9_State ==
    \A s \in AllSessions : \A i, j \in DOMAIN delivered[s] :
        ( /\ delivered[s][i].kind = "end"
          /\ delivered[s][j].kind \in {"bin", "end"}
          /\ delivered[s][j].seg = delivered[s][i].seg
          /\ i # j ) => (j < i /\ delivered[s][j].kind = "bin")

\* ... and the step in which the gateway reads the backend's end frame
\* closes the connection and ends the cycle; for a client that is still
\* connected it delivers exactly the end marker of that item, and the
\* handler goes on with the next segment or the next client message.
C9_Step ==
    \A s \in AllSessions :
        (NextFrameIs(s, "end") /\ HandlerStep(s)) =>
            /\ ~conns'[s][Len(conns'[s])].open
            /\ Len(conns'[s]) = Len(conns[s])
            /\ clientOpen[s] =>
                  /\ delivered'[s] = Append(delivered[s], EndFrame(Current(s).seg))
                  /\ pc'[s] \in {"recv", "loop"}

C9_EndMarker == [](C9_State) /\ [][C9_Step]_vars

C9_Witness ==
    \E s \in Sessions :
        /\ Len(conns[s]) = 1 /\ ~Current(s).open
        /\ delivered[s] = <<BinFrame(1, 0), EndFrame(0)>>
        /\ pc[s] = "recv"

\* C10: once the gateway has read an error control frame of the backend,
\* the connection is closed, the cycle is over, and the client, if still
\* connected, has one error message.
C10_BackendError ==
    \A s \in AllSessions :
        (conns[s] # <<>> /\ HasRead(s, "error")) =>
            /\ ~Current(s).open
            /\ pc[s] \in {"recv", "closed"}
            /\ clientOpen[s] => Cardinality(ErrorFrames(s)) = 1

\* the step in which the backend connection of the session's relay cycle
\* cannot be established, fails, or ends without an end frame
CycleFails(s) ==
    \/ pc[s] = "connect" /\ pc'[s] # "connect" /\ conns'[s] = conns[s]
    \/ NextFrameIs(s, "close_err") /\ HandlerStep(s)
    \/ NextFrameIs(s, "close_ok") /\ HandlerStep(s)

\* C11: when the backend connection of a relay cycle cannot be established,
\* fails, or is closed by the backend before an end frame, the connected
\* client gets exactly one error message for the cycle, and the session is
\* back at waiting for the next client message with the rest of the request
\* abandoned.
C11_Step ==
    \A s \in AllSessions :
        (clientOpen[s] /\ CycleFails(s)) =>
            /\ delivered'[s] =
                  Append(delivered[s], ErrFrame("TTS generation failed", cur[s].seg))
            /\ pc'[s] = "recv"
            /\ s \in active_connections'

C11_BackendFailure == [][C11_Step]_vars

\* C12: a session is closed only after its client has disconnected (or
\* the client socket has failed), and it stays registered from its
\* acceptance until then, whatever the backend or the client's messages do.
C12_ClosedOnlyByClient ==
    \A s \in AllSessions :
        /\ pc[s] = "closed" => ~clientOpen[s]
        /\ pc[s] \notin {"new", "closed"} => s \in active_connections

\* C13: once the client has disconnected during a relay cycle, eventually
\* every backend connection of the session is closed and the session is
\* unregistered, whatever the backend does.
C13_ClientGone ==
    \A s \in AllSessions :
        (pc[s] = "relay" /\ ~clientOpen[s]) ~>
            ( /\ pc[s] = "closed"
              /\ s \notin active_connections
              /\ \A i \in DOMAIN conns[s] : ~conns[s][i].open )

\* C14: no backend connection is open outside the relay cycle that opened
\* it ...
C14_State ==
    \A s \in AllSessions :
        pc[s] # "relay" => \A i \in DOMAIN conns[s] : ~conns[s][i].open

\* ... because every step that ends a relay cycle (end frame, close by the
\* backend, exception of the backend socket or of the send to the client)
\* leaves the connection of that cycle closed.
C14_Step ==
    \A s \in AllSessions :
        (pc[s] = "relay" /\ pc'[s] # "relay") =>
            /\ Len(conns'[s]) = Len(conns[s])
            /\ ~conns'[s][Len(conns[s])].open

C14_ClosedOnExit == [](C14_State) /\ [][C14_Step]_vars

\* a cycle that ended by an exception after one forwarded frame
C14_Witness ==
    \E s \in Sessions :
        /\ pc[s] = "recv"
        /\ Len(conns[s]) = 1 /\ ~conns[s][1].open
        /\ delivered[s] = <<BinFrame(1, 0), ErrFrame("TTS generation failed", 0)>>

\* the payloads of the binary frames among the frames fr, in order
Payloads(fr) ==
    LET b == SelectSeq(fr, LAMBDA f : f.kind = "bin")
    IN  [i \in DOMAIN b |-> b[i].data]

\* the frames the client has got for text item k
DeliveredFor(s, k) == SelectSeq(delivered[s], LAMBDA f : f.seg = k)

\* the frames of the current connection the gateway has read
ReadFrames(s) == SubSeq(sent[s], 1, rd[s])

\* C15: during a relay cycle the binary frames the client has got for the
\* item are exactly the binary frames read from the backend so far, same
\* payloads, same order: a prefix of what the backend sends ...
C15_State ==
    \A s \in AllSessions :
        pc[s] = "relay" =>
            /\ Payloads(DeliveredFor(s, Current(s).seg)) = Payloads(ReadFrames(s))
            /\ IsPrefix(Payloads(ReadFrames(s)), Payloads(sent[s]))

\* ... and the step that ends the cycle adds no binary frame and takes none
\* away: when the end frame is read, the client has every binary frame the
\* backend sent before it.
C15_Step ==
    \A s \in AllSessions :
        (pc[s] = "relay" /\ pc'[s] # "relay") =>
            Payloads(SelectSeq(delivered'[s], LAMBDA f : f.seg = Current(s).seg))
                = Payloads(ReadFrames(s))

C15_VerbatimPrefix == [](C15_State) /\ [][C15_Step]_vars

C15_Witness ==
    \E s \in Sessions :
        /\ pc[s] = "relay" /\ rd[s] = 2
        /\ delivered[s] = <<BinFrame(1, 0), BinFrame(2, 0)>>

\* everything the gateway holds for a session, its registry entry included
SessionState(s) ==
    <<pc[s], clientOpen[s], request[s], idx[s], cur[s], conns[s], sent[s],
      rd[s], delivered[s], s \in active_connections>>

\* the session's relay waits for a backend that sends nothing, or its
\* client has gone during a relay cycle
Stalled(t) ==
    pc[t] = "relay" /\ (rd[t] = Len(sent[t]) \/ ~clientOpen[t])

\* C16: a step of one session leaves the state and the registry entry of
\* every other session as they are ...
C16_Step ==
    \A s \in AllSessions : \A t \in AllSessions \ {s} :
        SessionState(s)' # SessionState(s) => SessionState(t)' = SessionState(t)

\* ... and while a session is stalled every other session can take each of
\* its steps: receive a client message, open a backend connection, get a
\* backend frame and relay it.
C16_CanProceed ==
    \A t \in AllSessions : \A s \in AllSessions \ {t} :
        Stalled(t) =>
            /\ (pc[s] = "recv" /\ clientOpen[s]) =>
                  \A m \in SessionMsgs : ENABLED Receive(s, m)
            /\ pc[s] = "loop" => ENABLED LoopStep(s)
            /\ pc[s] = "connect" => ENABLED OpenBackend(s, TRUE)
            /\ (pc[s] = "relay" /\ rd[s] < Len(sent[s])) => ENABLED RelayFrame(s)
            /\ pc[s] \notin {"new", "closed"} => s \in active_connections

C16_Isolation == [](C16_CanProceed) /\ [][C16_Step]_vars

\* one session hangs on its backend with its client gone, the other has
\* had a whole relay cycle and waits for its next message
C16_Witness ==
    /\ Stalled("ws1") /\ ~clientOpen["ws1"] /\ sent["ws1"] = <<>>
    /\ pc["ws2"] = "recv" /\ "ws2" \in active_connections
    /\ delivered["ws2"] = <<BinFrame(1, 0), EndFrame(0)>>

\* C23: under every interleaving of the sessions' steps the registry holds
\* exactly the sessions that were accepted and whose handler has not exited.
C23_Registry ==
    active_connections = {s \in AllSessions : pc[s] \notin {"new", "closed"}}

\* one handler has exited on an exception during its relay cycle while the
\* other session is in a relay cycle of its own
C23_Witness ==
    /\ pc["ws1"] = "closed" /\ conns["ws1"] # <<>>
    /\ pc["ws2"] = "relay"
    /\ active_connections = {"ws2"}

\* ----------------------------------------------------- one-way properties
BadParams(q) ==
    \/ q.sr < 8000 \/ q.sr > 48000
    \/ q.ch < 1 \/ q.ch > 2

\* C3: a one-way request with sr outside [8000, 48000] or ch outside {1, 2}
\* is answered with status 400 and reaches no backend.
C3_BadParamsRejected ==
    (epc = "done" /\ BadParams(ereq)) =>
        /\ eresp.sent /\ eresp.status = 400
        /\ asr_calls = 0 /\ tts_calls = 0

\* C4: a one-way request with an empty body is answered with status 400
\* and reaches no backend, whatever sr and ch are.
C4_EmptyBodyRejected ==
    (epc = "done" /\ ereq.body = 0) =>
        /\ eresp.sent /\ eresp.status = 400
        /\ asr_calls = 0 /\ tts_calls = 0

\* C17: a valid one-way request whose recognition failed, or returned an
\* empty or whitespace-only text, is answered with status 200, an empty
\* X-Recognized-Text, X-Segments "[]" and an empty body, and the synthesis
\* backend is never called.
C17_EmptyRecognition ==
    ( /\ Validate(ereq) = NoException
      /\ epc \notin {"idle", "asr"}
      /\ (~easr.ok \/ IsBlank(RecognizedText(easr))) ) =>
        /\ epc = "done"
        /\ eresp = [sent |-> TRUE, status |-> 200, text |-> <<>>,
                    segments |-> json_dumps(<<>>)]
        /\ ebody = <<>>
        /\ tts_calls = 0

\* recognition returned a whitespace-only text
C17_Witness ==
    /\ epc = "done" /\ eresp.sent
    /\ easr.ok /\ easr.text = Str(<<" ">>)
    /\ easr.segments.ty = "list"

\* C18: a valid one-way request whose recognition returned a text that is
\* not blank is answered with status 200, X-Recognized-Text equal to the
\* text, X-Segments equal to the JSON of the segment list ("[]" when the
\* result has none), and a body made of the chunks of the synthesis stream
\* in arrival order.
C18_EchoResponse ==
    ( /\ Validate(ereq) = NoException
      /\ epc \notin {"idle", "asr"}
      /\ easr.ok /\ ~IsBlank(RecognizedText(easr)) ) =>
        /\ eresp.sent /\ eresp.status = 200
        /\ eresp.text = RecognizedText(easr)
        /\ eresp.segments = json_dumps(easr.segments.items)
        /\ IsPrefix(ebody, echunks)
        /\ epc = "done" => ebody = echunks

\* C19: recognition is called at most once and only for a request that
\* passed validation; synthesis is called only after recognition has
\* returned; and while recognition has not completed the client has got no
\* header and no body byte.
C19_RecognizeFirst ==
    /\ asr_calls <= 1
    /\ asr_calls > 0 => (~BadParams(ereq) /\ ereq.body > 0)
    /\ tts_calls > 0 => (asr_calls = 1 /\ easr.ok /\ epc \notin {"idle", "asr"})
    /\ epc = "asr" => (~eresp.sent /\ ebody = <<>> /\ tts_calls = 0)
    /\ (eresp.sent /\ eresp.status = 200) => (asr_calls = 1 /\ epc # "asr")

C19_Witness ==
    /\ epc = "stream"
    /\ asr_calls = 1 /\ tts_calls = 1
    /\ ebody = <<1>>

\* C20: when synthesis fails after the response has been committed, the
\* status and the headers stay as committed, the body is exactly the chunks
\* received before the failure, and the stream ends without an exception.
C20_State ==
    /\ epc # "aborted"
    /\ epc = "truncated" =>
          /\ eresp.sent /\ eresp.status = 200
          /\ eresp.text = RecognizedText(easr)
          /\ eresp.segments = json_dumps(easr.segments.items)
          /\ ebody = echunks

C20_Step ==
    epc = "stream" => (eresp' = eresp /\ IsPrefix(ebody, ebody'))

C20_Truncated == [](C20_State) /\ [][C20_Step]_vars

\* synthesis failed between the first chunk and the second
C20_Witness ==
    /\ epc = "truncated"
    /\ ebody = <<1>>
    /\ eresp.text = <<" ", "a">>

\* ------------------------------------------------------ health properties
\* C21: the health response says "healthy" exactly when both backend
\* booleans are true and "degraded" otherwise, and carries the booleans as
\* check_services_health returned them.
C21_Aggregate ==
    (hpc = "done" /\ DOMAIN health_status = {"tts", "asr"}) =>
        /\ hresp.sent /\ hresp.status_code = 200
        /\ hresp.status = "healthy" <=> (health_status["tts"] /\ health_status["asr"])
        /\ hresp.status = "degraded" <=> ~(health_status["tts"] /\ health_status["asr"])
        /\ hresp.dependencies = health_status

C21_Witness ==
    /\ hpc = "done"
    /\ health_status = DictSet(DictSet(EmptyDict, "tts", TRUE), "asr", FALSE)
    /\ hresp.status = "degraded"

\* C22: whatever the probes meet (an answer of any status, a timeout, a
\* transport error), the health request is answered with status 200 and an
\* aggregate status, both backends have been probed, and each backend's
\* boolean depends on its own probe only: true exactly for an answer 200.
C22_ProbeNeverRaises ==
    hpc = "done" =>
        /\ DOMAIN hans = {"tts", "asr"}
        /\ DOMAIN health_status = {"tts", "asr"}
        /\ \A k \in {"tts", "asr"} :
              health_status[k] = (hans[k].kind = "response" /\ hans[k].code = 200)
        /\ hresp.sent /\ hresp.status_code = 200
        /\ hresp.status \in {"healthy", "degraded"}
        /\ hresp.dependencies = health_status

\* the synthesis probe timed out, the recognition probe was answered 200
C22_Witness ==
    /\ hpc = "done"
    /\ hans["tts"].kind = "timeout"
    /\ hans["asr"].kind = "response" /\ hans["asr"].code = 200
    /\ health_status["asr"] /\ ~health_status["tts"]

\* ------------------------------------------- recognition service properties
\* C24: a request to /api/stt/bytes with sr outside [8000, 48000], ch
\* outside {1, 2} or an empty body is answered with status 400, and the
\* engine is not called for it.
C24_SttRejects ==
    (apc = "done" /\ (BadParams(areq) \/ areq.body = 0)) =>
        /\ aresp.sent /\ aresp.status_code = 400
        /\ engine_calls = 0

\* C25: when the engine raises ValueError the answer is status 400 with the
\* error text as detail; when it raises anything else the answer is 500.
C25_EngineErrors ==
    (apc = "done" /\ engine_calls = 1) =>
        /\ aeng.kind = "ValueError" =>
              (aresp.sent /\ aresp.status_code = 400 /\ aresp.detail = aeng.detail)
        /\ aeng.kind = "Exception" => (aresp.sent /\ aresp.status_code = 500)

C25_Witness ==
    /\ apc = "done" /\ engine_calls = 1
    /\ aeng.kind = "ValueError"
    /\ aresp.status_code = 400
    /\ aresp.detail = "Audio duration exceeds maximum"

\* ------------------------------------------------ backend client properties
\* C26: transcribe posts once; it returns the parsed body when the backend
\* answered 200, and raises, returning nothing, on an error status or a
\* transport failure.
C26_Recognize ==
    cpc = "done" =>
        /\ post_calls = 1
        /\ (cans.kind = "response" /\ cans.code = 200) =>
              (~cout.raised /\ cout.result = cans.body)
        /\ ~(cans.kind = "response" /\ cans.code = 200) =>
              (cout.raised /\ cout.result = NoResult)

\* C27: the chunks synthesize_stream_http has yielded are exactly the chunks
\* read from the backend's response so far, in order; a failed request or a
\* non-success status raises without any chunk ...
C27_State ==
    /\ syield = sread
    /\ (sans.kind = "failure" \/ (sans.kind = "response" /\ sans.code # 200)) =>
          (spc = "raised" /\ syield = <<>>)
    /\ (sans.kind = "response" /\ sans.code = 200) => spc \in {"open", "ended", "raised"}

\* ... each step yields at most the one chunk just read, and the end of the
\* body or a failure while reading leaves the yielded chunks as they are.
C27_Step ==
    spc = "open" =>
        /\ IsPrefix(syield, syield') /\ Len(syield') <= Len(syield) + 1
        /\ spc' # "open" => (syield' = syield /\ spc' \in {"ended", "raised"})

C27_SynthesizeHttp == [](C27_State) /\ [][C27_Step]_vars

\* the stream failed after the first chunk had been yielded
C27_Witness ==
    /\ spc = "raised"
    /\ sans.kind = "response" /\ sans.code = 200
    /\ syield = <<1>>

\* --------------------------------------------- synthesis service properties
\* a message that is not JSON, has no text field, or has a blank text
TtsMalformed(m) ==
    \/ m.top = "nonjson"
    \/ m.top = "object" /\ m.text.ty = "absent"
    \/ m.top = "container" /\ ~m.has_text
    \/ BlankTextMsg(m)

\* C28: for such a message the synthesis service sends exactly one error
\* frame and nothing else, the engine is not used, and the handler waits
\* for the next message (until its peer goes away).
C28_TtsMalformed ==
    TtsMalformed(tmsg) =>
        /\ tout = <<BackendFrame("error", 0)>>
        /\ tgen = <<>>
        /\ tpc = "recv" \/ (tpc = "closed" /\ ~tclient)

\* a whitespace-only text was answered and the next message is awaited
C28_Witness ==
    /\ tmsg = Obj(Str(<<" ">>), NoSegs)
    /\ Len(tout) = 1
    /\ tpc = "recv" /\ tclient

\* a message whose text goes to the engine
TtsValid(m) == m.top = "object" /\ m.text.ty = "str" /\ strip(m.text.s) # <<>>

\* C29: the answer to a valid text message is the engine's chunks as binary
\* frames in the engine's order, then one closing control frame: the end
\* message when the engine's stream was exhausted, an error message when it
\* raised.  Every frame before the last is binary, so no binary frame
\* follows the end frame, and the handler takes the next message only after
\* the closing frame.
C29_TtsAnswer ==
    TtsValid(tmsg) =>
        /\ \A i \in 1..Len(tout) :
              IF tout[i].kind = "bin"
              THEN i <= Len(tgen) /\ tout[i] = BackendFrame("bin", tgen[i])
              ELSE /\ i = Len(tout)
                   /\ i = Len(tgen) + 1
                   /\ tdone \in {"complete", "failed"}
                   /\ tout[i] = BackendFrame(IF tdone = "complete" THEN "end"
                                             ELSE "error", 0)
        /\ (tclient /\ tpc = "stream") => Len(tout) = Len(tgen)
        /\ tpc = "recv" =>
              /\ Len(tout) = Len(tgen) + 1
              /\ tout[Len(tout)].kind \in {"end", "error"}

\* every chunk of a full stream was sent, then the end frame
C29_Witness ==
    /\ TtsValid(tmsg)
    /\ tdone = "complete"
    /\ Len(tgen) = MaxChunks
    /\ Len(tout) = MaxChunks + 1
    /\ tout[Len(tout)].kind = "end"
    /\ tpc = "recv"

\* C30: /api/tts answers 422 and does not call the engine when the text is
\* missing, empty or longer than 1000 characters, and accepts (200) every
\* text of 1 to 1000 characters.
C30_TtsHttpValidation ==
    ppc # "idle" =>
        /\ ( \/ preq.field = "absent"
             \/ preq.field = "str" /\ (preq.len = 0 \/ preq.len > 1000) ) =>
                 presp = 422 /\ synth_calls = 0 /\ pbody = <<>>
        /\ (preq.field = "str" /\ preq.len >= 1 /\ preq.len <= 1000) =>
                 presp = 200 /\ synth_calls = 1

\* a text of 1001 characters was rejected
C30_Witness ==
    /\ ppc = "done"
    /\ preq = [field |-> "str", len |-> 1001]
    /\ presp = 422
    /\ synth_calls = 0

\* a text of 1000 characters was accepted and streamed
C30_WitnessAccepted ==
    /\ ppc = "done"
    /\ preq = [field |-> "str", len |-> 1000]
    /\ presp = 200
    /\ Len(pbody) = MaxChunks

\* ------------------------------------------------- composition properties
\* C31: with the synthesis service as backend, a relay cycle that has
\* started is eventually over and the session awaits the next message.
C31_CycleTerminates ==
    \A s \in Sessions : (pc[s] = "relay") ~> (pc[s] = "recv")

\* a cycle whose synthesis succeeded is eventually over
C31_SuccessTerminates ==
    \A s \in Sessions :
        (Connected(s) /\ tpc = "recv" /\ tdone = "complete") ~> (pc[s] # "relay")

\* the service has reported a synthesis error, the gateway has read the
\* frame, and the cycle goes on
C31_Hung ==
    \E s \in Sessions :
        /\ Connected(s)
        /\ tdone = "failed"
        /\ tpc = "recv"
        /\ rd[s] = Len(tout)
        /\ sent[s] = tout

\* ------------------------------------------------- blocking-forward properties
\* a frame is in hand whose write the client does not take
Blocked(s) ==
    /\ pc[s] = "relay"
    /\ inhand[s] > 0
    /\ ~WriteReturns(s)

\* C32: at most one backend frame has been taken and not passed on, the
\* frames passed on are the frames handled ...
C32_State ==
    \A s \in AllSessions :
        /\ inhand[s] <= 1
        /\ pc[s] # "relay" => inhand[s] = 0
        /\ pc[s] = "relay" =>
              Payloads(DeliveredFor(s, Current(s).seg)) = Payloads(ReadFrames(s))

\* ... and while the client does not take the frame in hand, the gateway
\* takes no further frame from the backend and delivers nothing.
C32_Step ==
    \A s \in AllSessions :
        Blocked(s) =>
            /\ rd'[s] = rd[s]
            /\ inhand'[s] = inhand[s]
            /\ delivered'[s] = delivered[s]
            /\ pc'[s] = pc[s]

C32_BlockingForward == [](C32_State) /\ [][C32_Step]_vars

\* the client has stopped reading, a binary frame is in hand and the backend
\* has a further frame ready
C32_Witness ==
    \E s \in Sessions :
        /\ Blocked(s)
        /\ rd[s] = 0
        /\ Len(sent[s]) = 2
        /\ sent[s][1].kind = "bin"

\* ------------------------------------------------------ registry properties
\* the number of entries the registry holds for a handle
Entries(d, h) == Cardinality({i \in DOMAIN d : d[i].key = h})

\* C33: the registry never holds two entries for a handle; a connect for a
\* registered handle leaves its one entry and the other entries as they
\* are; a disconnect for a handle that is not registered changes nothing and
\* does not raise.
C33_State == \A h \in Handles : Entries(registry, h) <= 1

C33_Step ==
    LET h == reg_last'.handle IN
    /\ (reg_last'.op = "connect" /\ DictHas(registry, h)) =>
          /\ Entries(registry', h) = 1
          /\ Len(registry') = Len(registry)
          /\ \A i \in DOMAIN registry : registry'[i].key = registry[i].key
    /\ (reg_last'.op = "disconnect" /\ ~DictHas(registry, h)) =>
          /\ registry' = registry
          /\ ~reg_last'.raised

C33_Idempotent == [](C33_State) /\ [][C33_Step]_vars

\* a handle was registered again while another handle was registered too
C33_Witness ==
    /\ reg_last = Call("connect", "ws1", FALSE)
    /\ registry = <<[key |-> "ws1", value |-> "client_2"],
                    [key |-> "ws2", value |-> "client_1"]>>

\* ------------------------------------------- recognition engine properties
\* C34: _validate_audio raises for an empty sample array and for audio
\* longer than max_duration, and returns for every other audio of a
\* positive sample rate.
C34_ValidateAudio ==
    vout # "none" =>
        /\ vin.len = 0 => vout # "ok"
        /\ (vin.sample_rate > 0 /\ vin.len > 15 * vin.sample_rate) => vout # "ok"
        /\ (vin.len > 0 /\ vin.sample_rate > 0 /\ vin.len <= 15 * vin.sample_rate) =>
              vout = "ok"

\* an empty array was refused
C34_Witness ==
    /\ vin = [len |-> 0, sample_rate |-> 16000]
    /\ vout = "Empty audio data"

\* audio of 16 s was refused, audio of 15 s accepted
C34_WitnessLong ==
    /\ vin = [len |-> 16, sample_rate |-> 1]
    /\ vout = "Audio duration exceeds maximum"
C34_WitnessValid ==
    /\ vin = [len |-> 30, sample_rate |-> 2]
    /\ vout = "ok"

\* ------------------------------------------- texts handed to the synthesis
\* C35: every text the relay has sent over a backend connection, and the
\* text the one-way pipeline has passed to synthesize_stream_http, holds a
\* character that is not whitespace.
C35_NoBlankText ==
    /\ \A s \in AllSessions : \A i \in DOMAIN conns[s] : ~IsBlank(conns[s][i].text)
    /\ tts_calls > 0 => (eresp.sent /\ ~IsBlank(eresp.text))

\* a request with a blank and a non-blank segment has had its one relay,
\* and the one-way pipeline has called the synthesis backend
C35_Witness ==
    /\ \E s \in Sessions :
          /\ request[s].segments.items =
                <<[text |-> Str(<<" ">>)], [text |-> Str(<<" ", "a">>)]>>
          /\ Len(conns[s]) = 1
          /\ pc[s] = "recv"
    /\ tts_calls > 0

\* --------------------------------------------- text and segments together
\* a message with a text field and a segments field
BothFieldsMsg(m) == m.top = "object" /\ m.text.ty # "absent" /\ m.segments.present

\* C36: a message with both fields is a single-text request: the segment
\* loop is not entered, at most one backend connection is opened, for the
\* text of the text field, and every frame the client gets belongs to that
\* text; a text that is empty or blank opens none.
C36_TextWins ==
    \A s \in AllSessions :
        BothFieldsMsg(request[s]) =>
            /\ pc[s] # "loop"
            /\ Len(conns[s]) <= 1
            /\ \A i \in DOMAIN conns[s] :
                  conns[s][i].seg = 0 /\ conns[s][i].text = request[s].text.s
            /\ \A i \in DOMAIN delivered[s] : delivered[s][i].seg = 0
            /\ ~ValidTextMsg(request[s]) => conns[s] = <<>>

\* the text of such a message was relayed and the request is over
C36_Witness ==
    \E s \in Sessions :
        /\ BothFieldsMsg(request[s])
        /\ request[s].segments.items # <<>>
        /\ Len(conns[s]) = 1
        /\ delivered[s] # <<>>
        /\ delivered[s][Len(delivered[s])].kind = "end"
        /\ pc[s] = "recv"

\* --------------------------------------------- health of composed services
\* C37: a backend's boolean is true exactly when its probe was answered with
\* status 200, whatever the body says ...
C37_State ==
    hpc = "done" =>
        /\ DOMAIN health_status = Backends
        /\ \A k \in Backends :
              health_status[k] = (hans[k].kind = "response" /\ hans[k].code = 200)
        /\ hresp.status = "healthy" <=> \A k \in Backends : health_status[k]

\* ... and a service whose engine is unhealthy answers 200 with status
\* "unhealthy", for which the gateway stores true.
C37_Step ==
    \A k \in Backends :
        ( /\ k \notin DOMAIN hans
          /\ k \in DOMAIN hans'
          /\ hans'[k].kind = "response"
          /\ engines[k] = "unhealthy" ) =>
            /\ hans'[k].code = 200
            /\ hans'[k].body = "unhealthy"
            /\ health_status'[k] = TRUE

C37_HealthByStatus == [](C37_State) /\ [][C37_Step]_vars

\* both engines are unhealthy, both services said so, and the gateway
\* reports "healthy"
C37_Witness ==
    /\ hpc = "done"
    /\ \A k \in Backends : engines[k] = "unhealthy" /\ hans[k].body = "unhealthy"
    /\ hresp.status = "healthy"
    /\ hresp.dependencies = [k \in Backends |-> TRUE]

\* ----------------------------------------------- synthesis engine properties
\* the bytes of a sequence of chunks, in order
RECURSIVE Concat(_)
Concat(chunks) ==
    IF chunks = <<>> THEN <<>> ELSE Head(chunks) \o Concat(Tail(chunks))

\* C38: the chunks yielded make up the audio bytes, every chunk but the
\* last has chunk_size bytes, the last has 1 to chunk_size bytes, and no
\* chunk is empty; an empty audio yields no chunk.
C38_LosslessChunks ==
    gin # NoSynthesis =>
        /\ Concat(gout) = gin.audio
        /\ \A i \in DOMAIN gout :
              /\ Len(gout[i]) >= 1
              /\ Len(gout[i]) <= gin.chunk_size
              /\ i < Len(gout) => Len(gout[i]) = gin.chunk_size

\* 7 bytes in chunks of 3: two full chunks and a remainder of one byte
C38_Witness ==
    /\ gin = [audio |-> AudioBytes(7), chunk_size |-> 3]
    /\ Len(gout) = 3
    /\ gout[3] = <<7>>

====
